---- MODULE Spec2Model ----
(***************************************************************************)
(* A model of the DynamicLogger runtime (src/src/dynamicLogger.ts) and of  *)
(* the custom-code validator it calls (src/src/validators.ts).             *)
(*                                                                         *)
(* Every dynamicLog call is one async function activation.  It runs        *)
(* synchronously up to `await Promise.race([...])` (DynamicLogStart), is   *)
(* suspended while the race is pending, and runs synchronously from the    *)
(* await to its end once the race has settled (Resume).  The config        *)
(* fetcher, the timer, the evaluated custom expression and the sink are    *)
(* the environment: their outcomes are chosen nondeterministically.        *)
(***************************************************************************)
EXTENDS Integers, Sequences, FiniteSets, TLC

(***************************************************************************)
(* Bounds of the model.                                                    *)
(***************************************************************************)
\* Number of dynamicLog calls that may be made (and be in flight together).
NumCalls == 2
\* Sampling rates and Math.random() draws are the rationals n / RateScale.
RateScale == 2

Calls == 1..NumCalls

(***************************************************************************)
(* JavaScript values.  A value is a record [t, n, s]: t is the kind of the *)
(* value, n its number (when t = "number"), s its text (a string's         *)
(* contents, an Error's message).                                          *)
(***************************************************************************)
Undefined == [t |-> "undefined", n |-> 0, s |-> ""]
Null      == [t |-> "null",      n |-> 0, s |-> ""]
NaN       == [t |-> "NaN",       n |-> 0, s |-> ""]
Num(k)    == [t |-> "number",    n |-> k, s |-> ""]
Str(text) == [t |-> "string",    n |-> 0, s |-> text]
\* An Error object carrying a message.
Err(msg)  == [t |-> "Error",     n |-> 0, s |-> msg]
\* An object that JSON.stringify cannot serialise (a cycle, a BigInt).
Cyclic    == [t |-> "cyclic",    n |-> 0, s |-> ""]

\* JavaScript's typeof, for the kinds above.
TypeOf(v) ==
    CASE v.t \in {"number", "NaN"} -> "number"
      [] v.t = "string"            -> "string"
      [] v.t = "undefined"         -> "undefined"
      [] v.t = "function"          -> "function"
      [] OTHER                     -> "object"

\* A function value (a config fetcher, a sink), known by its name.
Fn(name)  == [t |-> "function",  n |-> 0, s |-> name]

\* ToBoolean: the falsy values are undefined, null, NaN, 0 and "".
Truthy(v) ==
    CASE v.t \in {"undefined", "null", "NaN"} -> FALSE
      [] v.t = "number"                       -> v.n # 0
      [] v.t = "string"                       -> v.s # ""
      [] OTHER                                -> TRUE

\* Reading `.message` off a caught value: a property read on null or
\* undefined throws a TypeError; an Error yields its message; any other
\* value has no such property.
ReadMessage(e) ==
    CASE e.t \in {"null", "undefined"} -> [threw |-> TRUE,  val |-> Undefined]
      [] e.t = "Error"                 -> [threw |-> FALSE, val |-> Str(e.s)]
      [] OTHER                         -> [threw |-> FALSE, val |-> Undefined]

(***************************************************************************)
(* Objects used as variable sources: the locals mapping passed as the      *)
(* third argument and the AsyncLocalStorage store.  `present` is FALSE for *)
(* an absent mapping (undefined argument, no store); `names` are the own   *)
(* keys in insertion order and `vals` their values.                        *)
(***************************************************************************)
NoObject == [present |-> FALSE, names |-> <<>>, vals |-> <<>>]
Obj(names, vals) == [present |-> TRUE, names |-> names, vals |-> vals]

SeqToSet(q) == {q[i] : i \in 1..Len(q)}
\* Object.prototype.hasOwnProperty.call(o, name)
HasOwn(o, name) == name \in SeqToSet(o.names)
\* o[name], for an own property
Get(o, name) == o.vals[CHOOSE i \in 1..Len(o.names) : o.names[i] = name]

(***************************************************************************)
(* _serializeValue and the JSON.stringify it calls.                        *)
(***************************************************************************)
\* The array [1, 2, ..., n]: a value that a method call can change in place.
ArrayOf(n) == [t |-> "array", n |-> n, s |-> ""]
RECURSIVE ArrayItems(_)
ArrayItems(n) ==
    IF n = 0 THEN ""
    ELSE IF n = 1 THEN "1"
    ELSE ArrayItems(n - 1) \o "," \o ToString(n)

\* JSON.stringify(v): the JSON text, the value undefined, or a throw.
JSONStringify(v) ==
    CASE v.t = "undefined" -> [threw |-> FALSE, val |-> Undefined]
      [] v.t = "null"      -> [threw |-> FALSE, val |-> Str("null")]
      [] v.t = "NaN"       -> [threw |-> FALSE, val |-> Str("null")]
      [] v.t = "number"    -> [threw |-> FALSE, val |-> Str(ToString(v.n))]
      [] v.t = "string"    -> [threw |-> FALSE, val |-> Str("\"" \o v.s \o "\"")]
      [] v.t = "Error"     -> [threw |-> FALSE, val |-> Str("{}")]
      [] v.t = "array"     -> [threw |-> FALSE, val |-> Str("[" \o ArrayItems(v.n) \o "]")]
      [] OTHER             -> [threw |-> TRUE,  val |-> Undefined]

\* A serialiser without the typeof test: a string goes through
\* JSON.stringify like any other value.
serializeValueStringified(value) ==
    LET r == JSONStringify(value)
    IN  IF r.threw THEN "<unserializable>"
        ELSE IF r.val.t = "undefined" THEN "undefined"
        ELSE r.val.s

serializeValue(value) ==
    IF TypeOf(value) = "string"
    THEN value.s
    ELSE LET r == JSONStringify(value)
         IN  IF r.threw THEN "<unserializable>"
             ELSE IF r.val.t = "undefined" THEN "undefined"
             ELSE r.val.s

(***************************************************************************)
(* _formatLogString.  `variables` is an object whose values are strings    *)
(* (the serialised variables) or NoObject; customCodeOutput is a string    *)
(* value or Undefined.  The strings of the model hold no character that    *)
(* JSON.stringify would escape.                                            *)
(***************************************************************************)
RECURSIVE JSONMembers(_, _)
JSONMembers(o, i) ==
    IF i > Len(o.names) THEN ""
    ELSE (IF i > 1 THEN "," ELSE "")
         \o "\"" \o o.names[i] \o "\":\"" \o o.vals[i] \o "\""
         \o JSONMembers(o, i + 1)

\* JSON.stringify of an object of strings
JSONStringifyObject(o) == "{" \o JSONMembers(o, 1) \o "}"

\* A formatter that writes the variables segment whatever the variables.
formatLogStringAlwaysVariables(uniqueKey, finalMessage, variables, customCodeOutput) ==
    "Unique Key: [" \o uniqueKey \o "] - Message: [" \o finalMessage \o "]"
    \o " - Variable Values: " \o JSONStringifyObject(variables)
    \o (IF customCodeOutput.t # "undefined"
        THEN " - Output of Custom Logging Code: [" \o customCodeOutput.s \o "]"
        ELSE "")

formatLogString(uniqueKey, finalMessage, variables, customCodeOutput) ==
    LET head == "Unique Key: [" \o uniqueKey \o "] - Message: [" \o finalMessage \o "]"
        vars == IF variables.present /\ Len(variables.names) > 0
                THEN " - Variable Values: " \o JSONStringifyObject(variables)
                ELSE ""
        cust == IF customCodeOutput.t # "undefined"
                THEN " - Output of Custom Logging Code: [" \o customCodeOutput.s \o "]"
                ELSE ""
    IN  head \o vars \o cust

(***************************************************************************)
(* validateTSCode (src/src/validators.ts).                                 *)
(*                                                                         *)
(* A custom-code value is the CustomLoggingCode field of a config.  When   *)
(* it is a string it is described by what the validator and the evaluator  *)
(* read off its text:                                                      *)
(*   blank   the text is empty after trim()                                *)
(*   lines   for each line of code.split('\n'): the whole words of the     *)
(*           line, and for each match of the assignment regex on the line, *)
(*           the number of quote characters before the match               *)
(*   parses  acorn parses the text; syntaxMsg is the parser's message and  *)
(*           syntaxLine its line otherwise                                 *)
(*   nodes   the CallExpression and AssignmentExpression nodes of the      *)
(*           tree, in the order acorn-walk's simple() visits them          *)
(*   result  the outcome of running the text as the body                   *)
(*           `return (text);` of the function built by new Function        *)
(***************************************************************************)
safeGlobalObjectsAndNamespaces ==
    {"Object", "Array", "String", "Number", "Boolean", "Date", "RegExp",
     "Math", "JSON", "Symbol", "Map", "Set", "WeakMap", "WeakSet",
     "Promise", "Intl"}

disallowedKeywords ==
    << [keyword |-> "process",     message |-> "Usage of 'process' object is disallowed."],
       [keyword |-> "while",       message |-> "Usage of 'while' loops is disallowed."],
       [keyword |-> "for",         message |-> "Usage of 'for' loops is disallowed."],
       [keyword |-> "constructor", message |-> "Usage of 'constructor' keyword is disallowed."],
       [keyword |-> "eval",        message |-> "Usage of 'eval' is disallowed."],
       [keyword |-> "Function",    message |-> "Usage of 'Function' constructor is disallowed."],
       [keyword |-> "require",     message |-> "Usage of 'require' is disallowed."],
       [keyword |-> "import",      message |-> "Usage of dynamic 'import()' is disallowed."],
       [keyword |-> "window",      message |-> "Usage of 'window' object is disallowed."],
       [keyword |-> "document",    message |-> "Usage of 'document' object is disallowed."],
       [keyword |-> "global",      message |-> "Usage of 'global' object is disallowed."],
       [keyword |-> "globalThis",  message |-> "Usage of 'globalThis' is disallowed."] >>

AssignmentMessage ==
    "Potential variable assignment or arrow function declaration detected. Assignments and complex function declarations are disallowed."

Violation(message, line) == [message |-> message, location |-> "Line " \o ToString(line)]

\* The base object of a member-expression chain: chain[1] is callee.object,
\* chain[i+1] is chain[i].object.
RECURSIVE BaseObject(_, _)
BaseObject(chain, i) ==
    IF chain[i].type = "MemberExpression" /\ i < Len(chain)
    THEN BaseObject(chain, i + 1)
    ELSE chain[i]

\* A callee check that forgets the names of the variable context.
isSafeCalleeGlobalsOnly(node, allAvailableLocals) ==
    IF node.callee.type = "Identifier"
    THEN node.callee.name \in safeGlobalObjectsAndNamespaces
    ELSE IF node.callee.type = "MemberExpression"
    THEN LET objectNode == BaseObject(node.chain, 1)
         IN  IF objectNode.type = "Identifier"
             THEN objectNode.name \in safeGlobalObjectsAndNamespaces
             ELSE objectNode.type \in {"Literal", "ArrayExpression",
                                       "ObjectExpression", "TemplateLiteral"}
    ELSE FALSE

isSafeCallee(node, allAvailableLocals) ==
    IF node.callee.type = "Identifier"
    THEN node.callee.name \in safeGlobalObjectsAndNamespaces
         \/ node.callee.name \in allAvailableLocals
    ELSE IF node.callee.type = "MemberExpression"
    THEN LET objectNode == BaseObject(node.chain, 1)
         IN  IF objectNode.type = "Identifier"
             THEN objectNode.name \in safeGlobalObjectsAndNamespaces
                  \/ objectNode.name \in allAvailableLocals
             ELSE objectNode.type \in {"Literal", "ArrayExpression",
                                       "ObjectExpression", "TemplateLiteral"}
    ELSE FALSE

\* The description of a disallowed callee (validators.ts:150-161).
CalleeDescription(node) ==
    IF node.callee.type = "Identifier" THEN node.callee.name
    ELSE IF node.callee.type = "MemberExpression"
    THEN (IF node.chain[1].type = "Identifier" THEN node.chain[1].name ELSE "[expr]")
         \o "." \o
         (IF node.prop.type = "Identifier" THEN node.prop.name ELSE "[expr]")
    ELSE "unknown function"

\* A keyword check that leaves the line at its first disallowed keyword.
RECURSIVE KeywordViolationsFirstOnly(_, _, _)
KeywordViolationsFirstOnly(line, lineNo, k) ==
    IF k > Len(disallowedKeywords) THEN <<>>
    ELSE IF disallowedKeywords[k].keyword \in line.words
    THEN << Violation(disallowedKeywords[k].message, lineNo) >>
    ELSE KeywordViolationsFirstOnly(line, lineNo, k + 1)

\* Check 1 on one line: one violation per disallowed keyword the line holds.
RECURSIVE KeywordViolations(_, _, _)
KeywordViolations(line, lineNo, k) ==
    IF k > Len(disallowedKeywords) THEN <<>>
    ELSE (IF disallowedKeywords[k].keyword \in line.words
          THEN << Violation(disallowedKeywords[k].message, lineNo) >>
          ELSE <<>>)
         \o KeywordViolations(line, lineNo, k + 1)

\* Check 2 on one line: one violation per regex match that has an even
\* number of quote characters before it.
RECURSIVE AssignmentViolations(_, _, _)
AssignmentViolations(line, lineNo, m) ==
    IF m > Len(line.assigns) THEN <<>>
    ELSE (IF line.assigns[m] % 2 = 0
          THEN << Violation(AssignmentMessage, lineNo) >>
          ELSE <<>>)
         \o AssignmentViolations(line, lineNo, m + 1)

\* line 117: the places of a line where /(?<![=<>!])=(?![=>])/g matches
CharAt(text, i) == IF i \in 1..Len(text) THEN SubSeq(text, i, i) ELSE ""
AssignmentMatches(text) ==
    {i \in 1..Len(text) :
        /\ CharAt(text, i) = "="
        /\ CharAt(text, i - 1) \notin {"=", "<", ">", "!"}
        /\ CharAt(text, i + 1) \notin {"=", ">"}}
\* The grave accent that delimits a template literal is written @ in the
\* texts of this module, whose strings cannot hold that character.
GraveAccent == "@"
\* line 121: the number of quote characters before a place
QuotesBefore(text, index) ==
    Cardinality({i \in 1..(index - 1) : CharAt(text, i) \in {"'", "\"", GraveAccent}})
\* The quote counts of the matches of a line, in the order of the matches.
RECURSIVE MatchQuotes(_, _)
MatchQuotes(text, i) ==
    IF i > Len(text) THEN <<>>
    ELSE (IF i \in AssignmentMatches(text) THEN << QuotesBefore(text, i) >> ELSE <<>>)
         \o MatchQuotes(text, i + 1)

RECURSIVE LexicalViolations(_, _)
LexicalViolations(lines, i) ==
    IF i > Len(lines) THEN <<>>
    ELSE KeywordViolations(lines[i], i, 1)
         \o AssignmentViolations(lines[i], i, 1)
         \o LexicalViolations(lines, i + 1)

\* A walk that visits the calls only.
RECURSIVE WalkViolationsCallsOnly(_, _, _)
WalkViolationsCallsOnly(nodes, i, localsSet) ==
    IF i > Len(nodes) THEN <<>>
    ELSE (IF nodes[i].type = "CallExpression" /\ ~isSafeCallee(nodes[i], localsSet)
          THEN << Violation("Disallowed function call: "
                            \o CalleeDescription(nodes[i]), nodes[i].line) >>
          ELSE <<>>)
         \o WalkViolationsCallsOnly(nodes, i + 1, localsSet)

\* Check 3: the walk over the syntax tree.
RECURSIVE WalkViolations(_, _, _)
WalkViolations(nodes, i, localsSet) ==
    IF i > Len(nodes) THEN <<>>
    ELSE (IF nodes[i].type = "CallExpression"
          THEN IF ~isSafeCallee(nodes[i], localsSet)
               THEN << Violation("Disallowed function call: "
                                 \o CalleeDescription(nodes[i]), nodes[i].line) >>
               ELSE <<>>
          ELSE IF nodes[i].type = "AssignmentExpression"
          THEN << Violation("Direct assignment expressions are disallowed.",
                            nodes[i].line) >>
          ELSE <<>>)
         \o WalkViolations(nodes, i + 1, localsSet)

validateTSCode(code, availableLocals) ==
    LET lexical == LexicalViolations(code.lines, 1)
    IN  IF Len(lexical) > 0
        THEN [isValid |-> FALSE, violations |-> lexical]
        ELSE IF ~code.parses
        THEN [isValid |-> FALSE,
              violations |-> << Violation("Syntax error in custom code: "
                                          \o code.syntaxMsg, code.syntaxLine) >>]
        ELSE LET walked == WalkViolations(code.nodes, 1, SeqToSet(availableLocals))
             IN  [isValid |-> Len(walked) = 0, violations |-> walked]

\* JSON.stringify(validationResult.violations)
RECURSIVE JSONViolations(_, _)
JSONViolations(violations, i) ==
    IF i > Len(violations) THEN ""
    ELSE (IF i > 1 THEN "," ELSE "")
         \o "{\"message\":\"" \o violations[i].message
         \o "\",\"location\":\"" \o violations[i].location \o "\"}"
         \o JSONViolations(violations, i + 1)

JSONStringifyViolations(violations) == "[" \o JSONViolations(violations, 1) \o "]"

(***************************************************************************)
(* Configs: what a config fetch resolves with.  t = "null" is the value    *)
(* null; otherwise the value is an object with the four fields below       *)
(* (Undefined for a missing field; VariablesToLog.isArray is the result of *)
(* Array.isArray on the field).                                            *)
(***************************************************************************)
Config(rate, vars, prefix, code) ==
    [t |-> "object", SamplingRate |-> rate, VariablesToLog |-> vars,
     PrefixMessage |-> prefix, CustomLoggingCode |-> code]

Arr(items) == [isArray |-> TRUE,  items |-> items]
NotArr     == [isArray |-> FALSE, items |-> <<>>]

\* A code value that is not given (the field is undefined).
NoCode ==
    [t |-> "undefined", blank |-> TRUE, lines |-> <<>>, parses |-> FALSE,
     syntaxMsg |-> "", syntaxLine |-> 0, nodes |-> <<>>,
     result |-> [threw |-> FALSE, val |-> Undefined],
     effect |-> [kind |-> "none", name |-> ""]]

NullConfig ==
    [t |-> "null", SamplingRate |-> Undefined, VariablesToLog |-> NotArr,
     PrefixMessage |-> Undefined, CustomLoggingCode |-> NoCode]

(***************************************************************************)
(* The pieces of dynamicLog (src/src/dynamicLogger.ts:108-248).            *)
(***************************************************************************)
\* A guard that lets the empty key through.
KeyMissingNever(uniqueKey) == FALSE

\* line 113: !uniqueKey
KeyMissing(uniqueKey) == uniqueKey = ""

\* A race that takes the outcome of the last of its inputs to settle.
RaceSettleLastWins(race, outcome) == outcome

\* Promise.race (line 124): the race promise takes the outcome of the first
\* of its inputs to settle and keeps it.
RaceSettle(race, outcome) ==
    IF race.state = "pending"
    THEN outcome
    ELSE race

\* A wait that leaves the timeout promise without a rejection handler.
RaceSubscribesNot == FALSE

\* Promise.race subscribes to each of its inputs, so a rejection of the
\* timeout promise or of the fetch promise always has a handler.
RaceSubscribes == TRUE

\* lines 126-131: the catch block of the fetch.  The outcome of the call.
CatchFetchError(verbose, error) ==
    IF verbose /\ ReadMessage(error).threw
    THEN [pc |-> "Threw", result |-> "rejected"]
    ELSE [pc |-> "Aborted", result |-> "fulfilled"]

\* A check that forgets Array.isArray.
ConfigInvalidNoArrayCheck(fetchedConfig) ==
    \/ fetchedConfig.t = "null"
    \/ TypeOf(fetchedConfig.SamplingRate) # "number"

\* lines 133-136: the config is unusable
ConfigInvalid(fetchedConfig) ==
    \/ fetchedConfig.t = "null"
    \/ TypeOf(fetchedConfig.SamplingRate) # "number"
    \/ ~fetchedConfig.VariablesToLog.isArray

\* A config step that drops the prefix.
PrefixOfDropped(fetchedConfig) == ""

\* line 148: fetchedConfig.PrefixMessage || ""
PrefixOf(fetchedConfig) ==
    IF fetchedConfig.PrefixMessage.t = "string"
    THEN fetchedConfig.PrefixMessage.s
    ELSE ""

\* JavaScript's <= and >= on numbers: every comparison with NaN is false.
JSLessEq(a, b)    == a.t = "number" /\ b.t = "number" /\ a.n <= b.n
JSGreaterEq(a, b) == a.t = "number" /\ b.t = "number" /\ a.n >= b.n

\* line 154: the call is skipped.  `rate` and `draw` are in units of
\* 1 / RateScale.
SamplingSkips(rate, draw) ==
    JSLessEq(rate, Num(0)) \/ JSGreaterEq(draw, rate)

\* line 154: `||` evaluates Math.random() only when `rate <= 0` is false
RandomCalled(rate) == ~JSLessEq(rate, Num(0))

\* A store that overrides the locals.
StoreFillsAlways(contextLocals, key) == TRUE

\* line 172: a store entry is taken only for a key the context does not own
StoreFills(contextLocals, key) == ~HasOwn(contextLocals, key)

\* contextLocals[key] = value: a new key is appended, an owned key keeps
\* its place and takes the value.
Put(o, key, value) ==
    IF HasOwn(o, key)
    THEN Obj(o.names, [i \in 1..Len(o.names) |->
                          IF o.names[i] = key THEN value ELSE o.vals[i]])
    ELSE Obj(Append(o.names, key), Append(o.vals, value))

\* lines 165-177: the locals, then the store entries the locals do not own.
RECURSIVE MergeStore(_, _, _)
MergeStore(contextLocals, alsStoreObj, i) ==
    IF i > Len(alsStoreObj.names) THEN contextLocals
    ELSE MergeStore(
            IF StoreFills(contextLocals, alsStoreObj.names[i])
            THEN Put(contextLocals, alsStoreObj.names[i], alsStoreObj.vals[i])
            ELSE contextLocals,
            alsStoreObj, i + 1)

MergeContext(allAvailableLocals, alsStoreObj) ==
    LET spread == Obj(allAvailableLocals.names, allAvailableLocals.vals)
    IN  IF alsStoreObj.present THEN MergeStore(spread, alsStoreObj, 1) ELSE spread

\* lines 180-187: filteredVars, built in the order of VariablesToLog
RECURSIVE FilterLoop(_, _, _, _)
FilterLoop(filteredVars, contextLocals, variablesToLog, i) ==
    IF i > Len(variablesToLog) THEN filteredVars
    ELSE FilterLoop(
            IF HasOwn(contextLocals, variablesToLog[i])
            THEN Put(filteredVars, variablesToLog[i],
                     serializeValue(Get(contextLocals, variablesToLog[i])))
            ELSE filteredVars,
            contextLocals, variablesToLog, i + 1)

\* A filter that walks the context and keeps the requested names, in the
\* order of the context.
RECURSIVE FilterByContext(_, _, _, _)
FilterByContext(filteredVars, contextLocals, variablesToLog, i) ==
    IF i > Len(contextLocals.names) THEN filteredVars
    ELSE FilterByContext(
            IF contextLocals.names[i] \in SeqToSet(variablesToLog)
            THEN Put(filteredVars, contextLocals.names[i],
                     serializeValue(contextLocals.vals[i]))
            ELSE filteredVars,
            contextLocals, variablesToLog, i + 1)

FilterVarsContextOrder(contextLocals, variablesToLog) ==
    FilterByContext(Obj(<<>>, <<>>), contextLocals, variablesToLog, 1)

FilterVars(contextLocals, variablesToLog) ==
    IF Len(contextLocals.names) > 0
    THEN FilterLoop(Obj(<<>>, <<>>), contextLocals, variablesToLog, 1)
    ELSE Obj(<<>>, <<>>)

\* line 190: String(metadata), or "" for null and undefined
MetadataString(metadata) ==
    CASE metadata.t \in {"null", "undefined"} -> ""
      [] metadata.t = "string"                -> metadata.s
      [] metadata.t = "number"                -> ToString(metadata.n)
      [] metadata.t = "NaN"                   -> "NaN"
      [] metadata.t = "Error"                 -> "Error: " \o metadata.s
      [] OTHER                                -> "[object Object]"

\* A test for custom code that forgets trim().
HasCustomCodeNoTrim(code) == code.t = "string"

\* line 196: custom code is configured
HasCustomCode(code) == code.t = "string" /\ ~code.blank

\* lines 206-224: the names bound in the scope of the custom function
EvalContextNames(contextLocals) ==
    SeqToSet(contextLocals.names) \cup {"als", "Math", "JSON", "Date"}

\* A value the engine itself supplies to the scope: the AsyncLocalStorage
\* instance and the three utilities.
Builtin(name) == [t |-> "builtin", n |-> 0, s |-> name]

\* A scope that holds the variable context and nothing else.
evalContextLocalsOnly(contextLocals) == Obj(contextLocals.names, contextLocals.vals)

\* lines 206-216: { ...contextLocals, als: als, Math: Math, JSON: JSON, Date: Date }
evalContext(contextLocals) ==
    Put(Put(Put(Put(Obj(contextLocals.names, contextLocals.vals),
                    "als", Builtin("als")),
                "Math", Builtin("Math")),
            "JSON", Builtin("JSON")),
        "Date", Builtin("Date"))

\* An evaluator that runs the expression whatever the validator said.
RunsCustomCodeAlways(validationResult) == TRUE

\* line 200: the expression is run only when the validator found it valid
RunsCustomCode(validationResult) == validationResult.isValid

\* What running an expression does besides giving a value: nothing, or
\* name.push(...) on the array that `name` is bound to.
NoEffect == [kind |-> "none", name |-> ""]
Push(name) == [kind |-> "push", name |-> name]
\* Array.prototype.push: the array has one element more.
Pushed(array) == ArrayOf(array.n + 1)

\* lines 219-224: the function built from the expression is applied to the
\* values of the scope.  `result` is the value returned or thrown, `effect`
\* what the run did to a value of the scope.
Evaluate(code, contextLocals) ==
    IF code.effect.kind = "push"
    THEN IF ~HasOwn(contextLocals, code.effect.name)
         THEN [result |-> [threw |-> TRUE,
                           val |-> Err(code.effect.name \o " is not defined")],
               effect |-> NoEffect]
         ELSE IF Get(contextLocals, code.effect.name).t = "array"
         THEN [result |-> [threw |-> FALSE,
                           val |-> Num(Get(contextLocals, code.effect.name).n + 1)],
               effect |-> code.effect]
         ELSE [result |-> [threw |-> TRUE,
                           val |-> Err(code.effect.name \o ".push is not a function")],
               effect |-> NoEffect]
    ELSE [result |-> code.result, effect |-> NoEffect]

\* lines 194-238: the custom output, or a throw out of the catch block of
\* line 227 when the thrown value has no readable `.message`.  `validated`
\* and `evaluated` tell whether validateTSCode (line 198) and the function
\* built from the expression (lines 223-224) were called.
CustomCodeOutput(code, contextLocals) ==
    IF HasCustomCode(code)
    THEN LET validationResult == validateTSCode(code, contextLocals.names)
         IN  IF RunsCustomCode(validationResult)
             THEN LET run == Evaluate(code, contextLocals)
                  IN  IF ~run.result.threw
                      THEN [threw |-> FALSE, out |-> serializeValue(run.result.val),
                            validated |-> TRUE, evaluated |-> TRUE,
                            effect |-> run.effect]
                      ELSE LET msg == ReadMessage(run.result.val)
                           IN  IF msg.threw
                               THEN [threw |-> TRUE, out |-> "",
                                     validated |-> TRUE, evaluated |-> TRUE,
                                     effect |-> run.effect]
                               ELSE [threw |-> FALSE,
                                     out |-> "<EvalError: " \o serializeValue(msg.val) \o ">",
                                     validated |-> TRUE, evaluated |-> TRUE,
                                     effect |-> run.effect]
             ELSE [threw |-> FALSE,
                   out |-> "<ValidationViolations: "
                           \o JSONStringifyViolations(validationResult.violations) \o ">",
                   validated |-> TRUE, evaluated |-> FALSE, effect |-> NoEffect]
    ELSE [threw |-> FALSE, out |-> "NA", validated |-> FALSE, evaluated |-> FALSE,
          effect |-> NoEffect]

\* The caller's mapping and the store after the expression has run: both
\* were copied shallowly (lines 164-175, 206-207), so a value the expression
\* changed in place is the value the mapping that supplied it still holds.
LocalsAfter(allAvailableLocals, effect) ==
    IF effect.kind = "push" /\ HasOwn(allAvailableLocals, effect.name)
    THEN Put(allAvailableLocals, effect.name, Pushed(Get(allAvailableLocals, effect.name)))
    ELSE allAvailableLocals
StoreAfter(allAvailableLocals, alsStoreObj, effect) ==
    IF effect.kind = "push" /\ ~HasOwn(allAvailableLocals, effect.name)
       /\ HasOwn(alsStoreObj, effect.name)
    THEN Put(alsStoreObj, effect.name, Pushed(Get(alsStoreObj, effect.name)))
    ELSE alsStoreObj

\* lines 243-247: the sink has been given the line and returned or thrown.
\* sinkOutcome is [threw, val].
AfterSink(sinkOutcome) ==
    IF ~sinkOutcome.threw
    THEN [pc |-> "Delivered", result |-> "fulfilled"]
    ELSE IF ReadMessage(sinkOutcome.val).threw
    THEN [pc |-> "Threw", result |-> "rejected"]
    ELSE [pc |-> "DeliveryFailed", result |-> "fulfilled"]

\* A call that reads its sources before it looks at the config.
ReadsSourcesAlways(fetchedConfig, draw) == TRUE

\* lines 133-159: the two returns that come before the locals mapping and
\* the store are read (lines 164-169)
ReadsSources(fetchedConfig, draw) ==
    ~ConfigInvalid(fetchedConfig) /\ ~SamplingSkips(fetchedConfig.SamplingRate, draw)

\* lines 133-248: the rest of dynamicLog once the race has given a value.
\* The outcome of the call and the lines given to the sink.
ProcessConfig(uniqueKey, metadata, allAvailableLocals, alsStoreObj, fetchedConfig, draw, sinkOutcome) ==
    IF ConfigInvalid(fetchedConfig)
    THEN [pc |-> "Aborted", result |-> "fulfilled", lines |-> <<>>, drew |-> FALSE,
          validated |-> FALSE, evaluated |-> FALSE, read |-> ReadsSources(fetchedConfig, draw),
          localsAfter |-> allAvailableLocals, storeAfter |-> alsStoreObj]
    ELSE IF SamplingSkips(fetchedConfig.SamplingRate, draw)
    THEN [pc |-> "Skipped", result |-> "fulfilled", lines |-> <<>>,
          drew |-> RandomCalled(fetchedConfig.SamplingRate),
          validated |-> FALSE, evaluated |-> FALSE, read |-> ReadsSources(fetchedConfig, draw),
          localsAfter |-> allAvailableLocals, storeAfter |-> alsStoreObj]
    ELSE LET contextLocals == MergeContext(allAvailableLocals, alsStoreObj)
             filteredVars  == FilterVars(contextLocals, fetchedConfig.VariablesToLog.items)
             hasVars       == Len(filteredVars.names) > 0
             finalMessage  == PrefixOf(fetchedConfig) \o MetadataString(metadata)
             custom        == CustomCodeOutput(fetchedConfig.CustomLoggingCode, contextLocals)
         IN  IF custom.threw
             THEN [pc |-> "Threw", result |-> "rejected", lines |-> <<>>, drew |-> TRUE,
                   validated |-> custom.validated, evaluated |-> custom.evaluated,
                   read |-> ReadsSources(fetchedConfig, draw),
                   localsAfter |-> LocalsAfter(allAvailableLocals, custom.effect),
                   storeAfter |-> StoreAfter(allAvailableLocals, alsStoreObj,
                                             custom.effect)]
             ELSE LET logString ==
                          formatLogString(uniqueKey, finalMessage,
                                          IF hasVars THEN filteredVars ELSE NoObject,
                                          Str(custom.out))
                      after == AfterSink(sinkOutcome)
                  IN  [pc |-> after.pc, result |-> after.result,
                       lines |-> << logString >>, drew |-> TRUE,
                       validated |-> custom.validated, evaluated |-> custom.evaluated,
                   read |-> ReadsSources(fetchedConfig, draw),
                   localsAfter |-> LocalsAfter(allAvailableLocals, custom.effect),
                   storeAfter |-> StoreAfter(allAvailableLocals, alsStoreObj,
                                             custom.effect)]

(***************************************************************************)
(* The inputs the environment draws from.                                  *)
(***************************************************************************)
Line(words, assigns) == [words |-> words, assigns |-> assigns]
Ident(name) == [type |-> "Identifier", name |-> name]
Node(type)  == [type |-> type, name |-> ""]
CallNode(callee, chain, prop, line) ==
    [type |-> "CallExpression", callee |-> callee, chain |-> chain,
     prop |-> prop, line |-> line]
Code(lines, nodes, result) ==
    [t |-> "string", blank |-> FALSE, lines |-> lines, parses |-> TRUE,
     syntaxMsg |-> "", syntaxLine |-> 0, nodes |-> nodes, result |-> result,
     effect |-> NoEffect]
Returns(v) == [threw |-> FALSE, val |-> v]
Throws(v)  == [threw |-> TRUE,  val |-> v]

\* "   ": an empty program for acorn; `return (   );` is a SyntaxError of
\* new Function.
BlankCode ==
    [t |-> "string", blank |-> TRUE, lines |-> << Line({}, <<>>) >>,
     parses |-> TRUE, syntaxMsg |-> "", syntaxLine |-> 0,
     nodes |-> <<>>, result |-> Throws(Err("Unexpected token ')'")),
     effect |-> NoEffect]

\* A CustomLoggingCode that is not a string: the number 5.
NonStringCode ==
    [t |-> "number", blank |-> FALSE, lines |-> <<>>, parses |-> FALSE,
     syntaxMsg |-> "", syntaxLine |-> 0, nodes |-> <<>>,
     result |-> Returns(Undefined), effect |-> NoEffect]

\* Math.max(1,2)
CodeMathMax ==
    Code(<< Line({"Math", "max", "1", "2"}, <<>>) >>,
         << CallNode(Node("MemberExpression"), << Ident("Math") >>, Ident("max"), 1) >>,
         Returns(Num(2)))

\* fetchData()
CodeFetchData ==
    Code(<< Line({"fetchData"}, <<>>) >>,
         << CallNode(Ident("fetchData"), <<>>, Node(""), 1) >>,
         Throws(Err("fetchData is not defined")))

\* [1].map(function(){ throw V }), for a thrown value V; `words` are the
\* words of the throw operand.
CodeThrow(words, v) ==
    Code(<< Line({"1", "map", "function", "throw"} \cup words, <<>>) >>,
         << CallNode(Node("MemberExpression"), << Node("ArrayExpression") >>,
                     Ident("map"), 1) >>,
         Throws(v))

\* x.push(2), for x an entry of the variable context
CodePush ==
    [Code(<< Line({"x", "push", "2"}, <<>>) >>,
          << CallNode(Node("MemberExpression"), << Ident("x") >>, Ident("push"), 1) >>,
          Returns(Undefined)) EXCEPT !.effect = Push("x")]

\* The values a caught exception or a rejection reason may be.
ErrValues == {Null, Undefined, Str("boom"), Err("boom")}

CodeSamples ==
    {NoCode, BlankCode, NonStringCode, CodeMathMax, CodeFetchData,
     CodeThrow({"null"}, Null), CodeThrow({"undefined"}, Undefined),
     CodeThrow({"boom"}, Str("boom")), CodeThrow({"new", "Error", "boom"}, Err("boom"))}

\* Sampling rates: -1/RateScale .. 1 + 1/RateScale, and NaN.
Rates == {Num(n) : n \in -1..(RateScale + 1)} \cup {NaN}
\* Math.random(): a value of [0, 1)
Draws == {Num(n) : n \in 0..(RateScale - 1)}

BaseVars == Arr(<< "x" >>)

\* The values a config fetch may resolve with.
FetchValues ==
    {NullConfig}
    \cup {Config(r, BaseVars, Str("P: "), NoCode) : r \in Rates}
    \cup {Config(Str("1"), BaseVars, Str("P: "), NoCode),
          Config(Undefined, BaseVars, Str("P: "), NoCode),
          Config(Num(RateScale), NotArr, Str("P: "), NoCode),
          Config(Num(RateScale), Arr(<< "y", "x", "y", "z" >>), Undefined, NoCode)}
    \cup {Config(Num(RateScale), BaseVars, Str("P: "), code) : code \in CodeSamples}

SinkOutcomes == {Returns(Undefined)} \cup {Throws(e) : e \in ErrValues}

\* The arguments of a call: uniqueKey, metadata, allAvailableLocals.
Args(uniqueKey, metadata, locals) ==
    [uniqueKey |-> uniqueKey, metadata |-> metadata, allAvailableLocals |-> locals]
StoreSamples == {NoObject, Obj(<< "x", "y" >>, << Num(2), Str("s") >>)}
ArgSamples ==
    {Args("", Undefined, NoObject),
     Args("K", Undefined, NoObject),
     Args("K", Str("hello"), Obj(<< "x" >>, << Num(7) >>))}

\* Call 1 draws its inputs from the full sample sets.  The further calls
\* are there to be in flight together with it, under its key or another,
\* and draw from reduced sets: a config that always logs and one that never
\* does.
ArgsOf(c) ==
    IF c = 1 THEN ArgSamples
    ELSE {Args("L", Undefined, NoObject), Args("K", Undefined, NoObject)}
FetchValuesOf(c) ==
    IF c = 1 THEN FetchValues
    ELSE {Config(Num(RateScale), BaseVars, Str("P: "), NoCode),
          Config(Num(0), BaseVars, Str("P: "), NoCode)}
ErrValuesOf(c) == IF c = 1 THEN ErrValues ELSE {}
SinkOutcomesOf(c) == IF c = 1 THEN SinkOutcomes ELSE {Returns(Undefined)}

\* line 38: the default of fetchTimeoutMs
DefaultFetchTimeoutMs == 2000

\* line 122: the Error the timer rejects the timeout promise with
TimeoutError(uniqueKey, ms) ==
    Err("Config fetch for key '" \o uniqueKey \o "' timed out after "
        \o ToString(ms.n) \o "ms.")

(***************************************************************************)
(* The singleton: DLInitializer, the constructor and getInstance           *)
(* (src/src/dynamicLogger.ts:35-74).  A fetcher or a sink is a function    *)
(* value, or undefined when the caller passes none.  An options argument   *)
(* is the record of its two fields, each undefined when it is not given.   *)
(***************************************************************************)
Options(ms, verbose) == [fetchTimeoutMs |-> ms, verbose |-> verbose]
\* No options argument, or {}.
NoOptions == Options(Undefined, Undefined)

\* The static field before the first construction.
NoInstance == 0

\* line 38: value || default
OrDefault(value, default) == IF Truthy(value) THEN value ELSE default

\* lines 35-45: the fields of the instance the constructor builds
NewDynamicLogger(fetcher, sink, options) ==
    [configFetcher   |-> fetcher,
     logFunction     |-> sink,
     fetchTimeoutMs  |-> OrDefault(options.fetchTimeoutMs, Num(DefaultFetchTimeoutMs)),
     internalVerbose |-> Truthy(options.verbose)]

\* An initialiser that builds a new instance on every call.
InstanceMissingAlways(inst) == TRUE

\* lines 55 and 70: !DynamicLogger.instance
InstanceMissing(inst) == inst = NoInstance

\* An initialiser that asks for the fetcher only.
RequiredMissingFetcherOnly(fetcher, sink) == ~Truthy(fetcher)

\* line 56: !configFetcher || !logFunction
RequiredMissing(fetcher, sink) == ~Truthy(fetcher) \/ ~Truthy(sink)

FetcherSamples == {Undefined, Fn("F1"), Fn("F2")}
SinkSamples == {Undefined, Fn("S1"), Fn("S2")}
OptionSamples ==
    {Options(ms, v) : ms \in {Undefined, Num(0), Num(5000)},
                      v \in {Undefined, Str("yes")}}

\* A call of the static API: what it was given and what came of it.
ApiCall(op, fetcher, sink, options, existed, threw, returned) ==
    [op |-> op, configFetcher |-> fetcher, logFunction |-> sink, options |-> options,
     existed |-> existed, threw |-> threw, returned |-> returned]
NoCall == ApiCall("none", Undefined, Undefined, NoOptions, FALSE, FALSE, NoInstance)
\* src/src/server.ts:25
ServerInit == ApiCall("DLInitializer", Fn("F1"), Fn("S1"), NoOptions, FALSE, FALSE, 1)

(***************************************************************************)
(* State.                                                                  *)
(***************************************************************************)
VARIABLES
    internalVerbose,      \* the instance's verbose flag
    alsStore,             \* als.getStore(), for the calls' async context
    pc,                   \* per call: where the activation is, or how it ended
    args,                 \* per call: uniqueKey, metadata, allAvailableLocals
    fetchPromise,         \* per call: the promise the fetcher returned
    timer,                \* per call: the setTimeout of line 122
    racePromise,          \* per call: the promise of Promise.race
    result,               \* per call: the promise dynamicLog returned
    fetcherCalls,         \* per call: invocations of the fetcher, with their keys
    sinkLog,              \* the sink's invocations, in order: the call, the
                          \* line it was given and what the sink did with it
    unhandledRejections,  \* promises rejected with no handler subscribed
    settled,              \* per call: "fetch" and "timer" in the order in which
                          \* the fetch promise settled and the timer fired
    drawn,                \* per call: the value Math.random() returned at
                          \* line 154, once it was called
    customRuns,           \* per call: whether validateTSCode was called and
                          \* whether the custom expression was run
    instance,             \* DynamicLogger.instance: NoInstance, or the ordinal
                          \* of the construction that made it
    configFetcher,        \* the instance's fetcher
    logFunction,          \* the instance's sink
    fetchTimeoutMs,       \* the instance's timeout
    lastCall,             \* the last call of DLInitializer or getInstance
    timerMs,              \* per call: the delay given to setTimeout
    sourcesRead,          \* per call: whether the locals mapping and the
                          \* store were read (lines 165-169)
    probe                 \* the last application of one of the pure functions:
                          \* its name, its inputs and its output

vars == << internalVerbose, alsStore, pc, args, fetchPromise, timer,
           racePromise, result, fetcherCalls, sinkLog, unhandledRejections,
           settled, drawn, customRuns, instance, configFetcher, logFunction,
           fetchTimeoutMs, lastCall, timerMs, sourcesRead, probe >>

\* The static field, the fields of the instance other than the verbose
\* flag, and the last call of the static API.
staticVars == << instance, configFetcher, logFunction, fetchTimeoutMs, lastCall >>

NoArgs == Args("", Undefined, NoObject)
NoPromise == [state |-> "none", config |-> NullConfig, reason |-> Undefined]
Pending   == [state |-> "pending", config |-> NullConfig, reason |-> Undefined]
Fulfilled(v) == [state |-> "fulfilled", config |-> v, reason |-> Undefined]
Rejected(e)  == [state |-> "rejected", config |-> NullConfig, reason |-> e]

NoRuns == [validated |-> FALSE, evaluated |-> FALSE]
NoProbe == [op |-> "none"]

Terminal == {"Aborted", "Skipped", "Delivered", "DeliveryFailed"}
Finished == Terminal \cup {"Threw"}

Init ==
    /\ internalVerbose \in BOOLEAN
    /\ alsStore \in StoreSamples
    /\ pc = [c \in Calls |-> "idle"]
    /\ args = [c \in Calls |-> NoArgs]
    /\ fetchPromise = [c \in Calls |-> NoPromise]
    /\ timer = [c \in Calls |-> "none"]
    /\ racePromise = [c \in Calls |-> NoPromise]
    /\ result = [c \in Calls |-> "none"]
    /\ fetcherCalls = [c \in Calls |-> <<>>]
    /\ sinkLog = <<>>
    /\ unhandledRejections = {}
    /\ settled = [c \in Calls |-> << >>]
    /\ drawn = [c \in Calls |-> << >>]
    /\ customRuns = [c \in Calls |-> NoRuns]
    /\ instance = 1
    /\ configFetcher = Fn("F1")
    /\ logFunction = Fn("S1")
    /\ fetchTimeoutMs = Num(DefaultFetchTimeoutMs)
    /\ lastCall = ServerInit
    /\ timerMs = [c \in Calls |-> Undefined]
    /\ sourcesRead = [c \in Calls |-> FALSE]
    /\ probe = NoProbe

\* A fetch that is tried a second time.
FetcherInvocationsRetry(uniqueKey) == << uniqueKey, uniqueKey >>

\* line 120: this.configFetcher(uniqueKey) is called, once
FetcherInvocations(uniqueKey) == << uniqueKey >>

\* A continuation that takes the config of the first call whose race is
\* fulfilled, as from a cache shared by the calls.
AwaitedConfigShared(c) ==
    racePromise[CHOOSE d \in Calls :
                   /\ racePromise[d].state = "fulfilled"
                   /\ \A e \in Calls : racePromise[e].state = "fulfilled" => d <= e].config

\* line 124: fetchedConfig is the value of this call's own race
AwaitedConfig(c) == racePromise[c].config

\* lines 108-124 with an empty key: the call returns at line 115.
DynamicLogEmptyKey(c) ==
    /\ ~InstanceMissing(instance)
    /\ pc[c] = "idle"
    /\ \E a \in ArgsOf(c) :
         /\ KeyMissing(a.uniqueKey)
         /\ args' = [args EXCEPT ![c] = a]
         /\ pc' = [pc EXCEPT ![c] = "Aborted"]
         /\ result' = [result EXCEPT ![c] = "fulfilled"]
    /\ UNCHANGED << staticVars, timerMs, sourcesRead, probe, customRuns, internalVerbose, alsStore, fetchPromise, timer, racePromise,
                    fetcherCalls, sinkLog, unhandledRejections, settled, drawn >>

\* lines 108-131 when the fetcher throws synchronously at line 120: the
\* catch block runs at once, no timer is created.
DynamicLogFetcherThrows(c) ==
    /\ ~InstanceMissing(instance)
    /\ pc[c] = "idle"
    /\ \E a \in ArgsOf(c), e \in ErrValuesOf(c) :
         /\ ~KeyMissing(a.uniqueKey)
         /\ args' = [args EXCEPT ![c] = a]
         /\ fetcherCalls' = [fetcherCalls EXCEPT ![c] =
                               @ \o FetcherInvocations(a.uniqueKey)]
         /\ LET after == CatchFetchError(internalVerbose, e)
            IN  /\ pc' = [pc EXCEPT ![c] = after.pc]
                /\ result' = [result EXCEPT ![c] = after.result]
    /\ UNCHANGED << staticVars, timerMs, sourcesRead, probe, customRuns, internalVerbose, alsStore, fetchPromise, timer, racePromise,
                    sinkLog, unhandledRejections, settled, drawn >>

\* lines 108-124 up to the await: the fetcher returns a promise, the timer
\* is started, the race is built on both and the call is suspended.
DynamicLogStart(c) ==
    /\ ~InstanceMissing(instance)
    /\ pc[c] = "idle"
    /\ \E a \in ArgsOf(c) :
         /\ ~KeyMissing(a.uniqueKey)
         /\ args' = [args EXCEPT ![c] = a]
         /\ fetcherCalls' = [fetcherCalls EXCEPT ![c] =
                               @ \o FetcherInvocations(a.uniqueKey)]
    /\ fetchPromise' = [fetchPromise EXCEPT ![c] = Pending]
    /\ timer' = [timer EXCEPT ![c] = "armed"]
    /\ timerMs' = [timerMs EXCEPT ![c] = fetchTimeoutMs]
    /\ racePromise' = [racePromise EXCEPT ![c] = Pending]
    /\ settled' = [settled EXCEPT ![c] = << >>]
    /\ pc' = [pc EXCEPT ![c] = "awaiting"]
    /\ result' = [result EXCEPT ![c] = "pending"]
    /\ UNCHANGED << staticVars, sourcesRead, probe, customRuns, internalVerbose, alsStore, sinkLog, unhandledRejections, drawn >>

\* The fetcher's promise is fulfilled with a value.
FetchResolve(c) ==
    /\ fetchPromise[c].state = "pending"
    /\ \E v \in FetchValuesOf(c) :
         /\ fetchPromise' = [fetchPromise EXCEPT ![c] = Fulfilled(v)]
         /\ racePromise' = [racePromise EXCEPT ![c] = RaceSettle(@, Fulfilled(v))]
         /\ settled' = [settled EXCEPT ![c] = Append(@, "fetch")]
    /\ UNCHANGED << staticVars, timerMs, sourcesRead, probe, customRuns, internalVerbose, alsStore, pc, args, timer, result,
                    fetcherCalls, sinkLog, unhandledRejections, drawn >>

\* The fetcher's promise is rejected with a reason.
FetchReject(c) ==
    /\ fetchPromise[c].state = "pending"
    /\ \E e \in ErrValuesOf(c) :
         /\ fetchPromise' = [fetchPromise EXCEPT ![c] = Rejected(e)]
         /\ racePromise' = [racePromise EXCEPT ![c] = RaceSettle(@, Rejected(e))]
         /\ settled' = [settled EXCEPT ![c] = Append(@, "fetch")]
    /\ unhandledRejections' =
         IF RaceSubscribes THEN unhandledRejections
         ELSE unhandledRejections \cup {<< c, "fetch" >>}
    /\ UNCHANGED << staticVars, timerMs, sourcesRead, probe, customRuns, internalVerbose, alsStore, pc, args, timer, result,
                    fetcherCalls, sinkLog, drawn >>

\* lines 121-123: the timer fires and rejects the timeout promise.
TimerFire(c) ==
    /\ timer[c] = "armed"
    /\ timer' = [timer EXCEPT ![c] = "fired"]
    /\ racePromise' = [racePromise EXCEPT ![c] =
                          RaceSettle(@, Rejected(TimeoutError(args[c].uniqueKey,
                                                              timerMs[c])))]
    /\ settled' = [settled EXCEPT ![c] = Append(@, "timer")]
    /\ unhandledRejections' =
         IF RaceSubscribes THEN unhandledRejections
         ELSE unhandledRejections \cup {<< c, "timer" >>}
    /\ UNCHANGED << staticVars, timerMs, sourcesRead, probe, customRuns, internalVerbose, alsStore, pc, args, fetchPromise, result,
                    fetcherCalls, sinkLog, drawn >>

\* lines 124-131: the race was rejected; the await throws into the catch.
ResumeRejected(c) ==
    /\ pc[c] = "awaiting"
    /\ racePromise[c].state = "rejected"
    /\ LET after == CatchFetchError(internalVerbose, racePromise[c].reason)
       IN  /\ pc' = [pc EXCEPT ![c] = after.pc]
           /\ result' = [result EXCEPT ![c] = after.result]
    /\ UNCHANGED << staticVars, timerMs, sourcesRead, probe, customRuns, internalVerbose, alsStore, args, fetchPromise, timer, racePromise,
                    fetcherCalls, sinkLog, unhandledRejections, settled, drawn >>

\* lines 124-248: the race was fulfilled; the call runs to its end.
ResumeFulfilled(c) ==
    /\ pc[c] = "awaiting"
    /\ racePromise[c].state = "fulfilled"
    /\ \E draw \in Draws, sinkOutcome \in SinkOutcomesOf(c) :
         LET after == ProcessConfig(args[c].uniqueKey, args[c].metadata,
                                    args[c].allAvailableLocals, alsStore,
                                    AwaitedConfig(c), draw, sinkOutcome)
         IN  /\ pc' = [pc EXCEPT ![c] = after.pc]
             /\ result' = [result EXCEPT ![c] = after.result]
             /\ sinkLog' = sinkLog \o [i \in 1..Len(after.lines) |->
                                          [call |-> c, line |-> after.lines[i],
                                           outcome |-> sinkOutcome]]
             /\ drawn' = [drawn EXCEPT ![c] = IF after.drew THEN << draw >> ELSE << >>]
             /\ customRuns' = [customRuns EXCEPT ![c] =
                                  [validated |-> after.validated,
                                   evaluated |-> after.evaluated]]
             /\ sourcesRead' = [sourcesRead EXCEPT ![c] = after.read]
             /\ args' = [args EXCEPT ![c].allAvailableLocals = after.localsAfter]
             /\ alsStore' = after.storeAfter
    /\ UNCHANGED << staticVars, timerMs, probe, internalVerbose, fetchPromise, timer, racePromise,
                    fetcherCalls, unhandledRejections, settled >>

Next ==
    \E c \in Calls :
        \/ DynamicLogEmptyKey(c)
        \/ DynamicLogFetcherThrows(c)
        \/ DynamicLogStart(c)
        \/ FetchResolve(c)
        \/ FetchReject(c)
        \/ TimerFire(c)
        \/ ResumeRejected(c)
        \/ ResumeFulfilled(c)

Spec == Init /\ [][Next]_vars

(***************************************************************************)
(* Fairness: a started timer fires, and the event loop runs the           *)
(* continuation of a call whose race has settled.  Nothing obliges the     *)
(* fetcher's promise to settle.  A continuation stays enabled until it     *)
(* runs and is never enabled again afterwards, so weak fairness on it is   *)
(* the same as its not staying ready for ever; the continuation of a       *)
(* fulfilled race is stated in that form.                                  *)
(***************************************************************************)
TimerOrCatchStep == \E c \in Calls : TimerFire(c) \/ ResumeRejected(c)

ResumeFulfilledReady(c) == pc[c] = "awaiting" /\ racePromise[c].state = "fulfilled"

FairSpec ==
    /\ Spec
    /\ WF_vars(TimerOrCatchStep)
    /\ \A c \in Calls : []<>(~ResumeFulfilledReady(c))

(***************************************************************************)
(* The pure functions of the logger and of the validator, applied to       *)
(* inputs drawn from bounded sets.  No call is in flight in PureSpec: a     *)
(* behaviour applies one function to one input and records the             *)
(* application in `probe`.                                                 *)
(***************************************************************************)
\* The largest number of entries of a variable source, and of lines of a
\* custom expression.
MaxVars == 2

VarNames == {"x", "y", "z"}

\* The sequences of distinct variable names of length 0..n
InjSeqs(n) ==
    UNION {{q \in [1..k -> VarNames] : \A i, j \in 1..k : i # j => q[i] # q[j]}
           : k \in 0..n}

\* The objects of at most n entries with values in `values`
Objects(values, n) ==
    UNION {{Obj(q, v) : v \in [1..Len(q) -> values]} : q \in InjSeqs(n)}

\* VariablesToLog: names in any order, with repetitions
NameSeqs(n) == UNION {[1..k -> VarNames] : k \in 0..n}

LocalValues == {Num(1), Undefined, Null}
StoreValues == {Num(2)}
ContextValues == {Num(7), Str("s"), Undefined, Cyclic}
SerializeSamples ==
    {Undefined, Null, NaN, Cyclic, Err("boom"), Str(""), Str("undefined"), Str("a")}
    \cup {Num(n) : n \in -1..MaxVars}

\* The words of the line a call is written on.
WordsOf(node) ==
    (IF node.callee.type = "Identifier" THEN {node.callee.name} ELSE {})
    \cup (IF node.callee.type = "FunctionExpression" THEN {"function", "return", "1"} ELSE {})
    \cup (IF node.callee.type = "ArrowFunctionExpression" THEN {"1"} ELSE {})
    \cup {node.chain[i].name : i \in {j \in 1..Len(node.chain) : node.chain[j].type = "Identifier"}}
    \cup (IF node.prop.type = "Identifier" THEN {node.prop.name} ELSE {})

\* name(), for a bare name
IdentCall(name, line) == CallNode(Ident(name), <<>>, Node(""), line)
\* base.toUpperCase() and base.a.toUpperCase()
MemberCall(base, depth, line) ==
    CallNode(Node("MemberExpression"),
             IF depth = 1 THEN << base >> ELSE << Node("MemberExpression"), base >>,
             Ident("toUpperCase"), line)
\* (() => 1)() and (function(){ return 1 })()
IIFECall(form, line) == CallNode(Node(form), <<>>, Node(""), line)

CalleeNames == {"Math", "String", "myLocal", "fetchData"}
BaseNodes ==
    {Ident(n) : n \in CalleeNames}
    \cup {Node(t) : t \in {"Literal", "ArrayExpression", "ObjectExpression",
                           "TemplateLiteral", "ThisExpression", "NewExpression"}}
IIFEForms == {"ArrowFunctionExpression", "FunctionExpression"}

CallNodes(line) ==
    {IdentCall(n, line) : n \in CalleeNames}
    \cup {MemberCall(b, d, line) : b \in BaseNodes, d \in 1..2}
    \cup {IIFECall(f, line) : f \in IIFEForms}

\* An expression of one call per line
CallCode(nodes) ==
    Code([i \in 1..Len(nodes) |-> Line(WordsOf(nodes[i]), <<>>)], nodes,
         Returns(Undefined))

\* (() => 1)() and (function(){ return 1 })(): evaluated, they give 1
IIFECode(form) == [CallCode(<< IIFECall(form, 1) >>) EXCEPT !.result = Returns(Num(1))]

\* The lines of the keyword pass: any of two disallowed keywords and a
\* harmless word, with or without an `=` outside a string.
KeywordLines ==
    {Line(w, a) : w \in SUBSET {"process", "eval", "x"}, a \in {<<>>, << 0 >>}}

\* An assignment expression, as the walk sees it.
AssignNode(line) ==
    [type |-> "AssignmentExpression", callee |-> Node(""), chain |-> <<>>,
     prop |-> Node(""), line |-> line]

\* x OP 1 written at the top level, in a call argument, in a function body
\* and in a template-literal substitution.
AssignOps == {"=", "+=", "<<=", ">>>=", "&&="}
AssignPlaces == {"top", "argument", "body", "template"}
AssignText(op, place) ==
    CASE place = "top"      -> "x " \o op \o " 1"
      [] place = "argument" -> "Math.max(x " \o op \o " 1)"
      [] place = "body"     -> "[1].map(function(){ x " \o op \o " 1 })"
      [] place = "template" -> GraveAccent \o "${x " \o op \o " 1}" \o GraveAccent
AssignWords(place) ==
    CASE place = "top"      -> {"x", "1"}
      [] place = "argument" -> {"x", "1", "Math", "max"}
      [] place = "body"     -> {"x", "1", "map", "function"}
      [] place = "template" -> {"x", "1"}
AssignNodes(place) ==
    CASE place = "top"      -> << AssignNode(1) >>
      [] place = "argument" -> << MemberCall(Ident("Math"), 1, 1), AssignNode(1) >>
      [] place = "body"     -> << MemberCall(Node("ArrayExpression"), 1, 1), AssignNode(1) >>
      [] place = "template" -> << AssignNode(1) >>
AssignCode(op, place) ==
    Code(<< Line(AssignWords(place), MatchQuotes(AssignText(op, place), 1)) >>,
         AssignNodes(place), Returns(Num(1)))
AssignCodes == {AssignCode(op, place) : op \in AssignOps, place \in AssignPlaces}

ValidatorCodes ==
    AssignCodes \cup
    UNION {{Code(ls, <<>>, Returns(Undefined)) : ls \in [1..k -> KeywordLines]}
           : k \in 1..MaxVars}
    \cup {CallCode(<< n >>) : n \in CallNodes(1)}
    \cup {CallCode(<< n, m >>) : n \in CallNodes(1), m \in CallNodes(2)}

ValidatorLocals == {<< >>, << "myLocal" >>}

\* The variables of the calls, which PureSpec leaves alone.
callVars == << internalVerbose, alsStore, pc, args, fetchPromise, timer,
               racePromise, result, fetcherCalls, sinkLog, unhandledRejections,
               settled, drawn, customRuns, instance, configFetcher,
               logFunction, fetchTimeoutMs, lastCall, timerMs, sourcesRead >>

PureInit ==
    /\ internalVerbose = FALSE
    /\ alsStore = NoObject
    /\ pc = [c \in Calls |-> "idle"]
    /\ args = [c \in Calls |-> NoArgs]
    /\ fetchPromise = [c \in Calls |-> NoPromise]
    /\ timer = [c \in Calls |-> "none"]
    /\ racePromise = [c \in Calls |-> NoPromise]
    /\ result = [c \in Calls |-> "none"]
    /\ fetcherCalls = [c \in Calls |-> <<>>]
    /\ sinkLog = <<>>
    /\ unhandledRejections = {}
    /\ settled = [c \in Calls |-> << >>]
    /\ drawn = [c \in Calls |-> << >>]
    /\ customRuns = [c \in Calls |-> NoRuns]
    /\ instance = 1
    /\ configFetcher = Fn("F1")
    /\ logFunction = Fn("S1")
    /\ fetchTimeoutMs = Num(DefaultFetchTimeoutMs)
    /\ lastCall = ServerInit
    /\ timerMs = [c \in Calls |-> Undefined]
    /\ sourcesRead = [c \in Calls |-> FALSE]
    /\ probe = NoProbe

\* lines 165-177
ApplyMergeContext ==
    /\ probe = NoProbe
    /\ \E locals \in {NoObject} \cup Objects(LocalValues, MaxVars),
          store \in {NoObject} \cup Objects(StoreValues, MaxVars) :
         probe' = [op |-> "MergeContext", locals |-> locals, store |-> store,
                   out |-> MergeContext(locals, store)]
    /\ UNCHANGED callVars

\* lines 179-187
ApplyFilterVars ==
    /\ probe = NoProbe
    /\ \E contextLocals \in Objects(ContextValues, MaxVars),
          variablesToLog \in NameSeqs(MaxVars + 1) :
         probe' = [op |-> "FilterVars", contextLocals |-> contextLocals,
                   variablesToLog |-> variablesToLog,
                   out |-> FilterVars(contextLocals, variablesToLog)]
    /\ UNCHANGED callVars

\* lines 76-83
ApplySerializeValue ==
    /\ probe = NoProbe
    /\ \E value \in SerializeSamples :
         probe' = [op |-> "serializeValue", value |-> value,
                   out |-> serializeValue(value)]
    /\ UNCHANGED callVars

\* lines 85-100
ApplyFormatLogString ==
    /\ probe = NoProbe
    /\ \E uniqueKey \in {"K", "L"}, finalMessage \in {"", "P: hello"},
          variables \in {NoObject} \cup Objects({"7", "s"}, MaxVars),
          customCodeOutput \in {Undefined, Str("NA"), Str(""), Str("2")} :
         probe' = [op |-> "formatLogString", uniqueKey |-> uniqueKey,
                   finalMessage |-> finalMessage, variables |-> variables,
                   customCodeOutput |-> customCodeOutput,
                   out |-> formatLogString(uniqueKey, finalMessage, variables,
                                           customCodeOutput)]
    /\ UNCHANGED callVars

\* validators.ts:94-193
ApplyValidateTSCode ==
    /\ probe = NoProbe
    /\ \E code \in ValidatorCodes, availableLocals \in ValidatorLocals :
         probe' = [op |-> "validateTSCode", code |-> code,
                   availableLocals |-> availableLocals,
                   out |-> validateTSCode(code, availableLocals)]
    /\ UNCHANGED callVars

\* The mappings and the stores that x.push(2) is run with.
PushLocals ==
    {NoObject, Obj(<< "y" >>, << Num(7) >>), Obj(<< "x" >>, << Num(7) >>),
     Obj(<< "x" >>, << ArrayOf(1) >>), Obj(<< "y", "x" >>, << Num(7), ArrayOf(2) >>)}
PushStores == {NoObject, Obj(<< "x" >>, << ArrayOf(1) >>)}

\* lines 133-248, for a config of rate 1 that asks for every name
ApplyProcessConfig ==
    /\ probe = NoProbe
    /\ \E run \in ({[locals |-> l, store |-> NoObject, code |-> c] :
                        l \in Objects(ContextValues, MaxVars),
                        c \in CodeSamples \cup {IIFECode(f) : f \in IIFEForms}
                                \cup AssignCodes})
                  \cup {[locals |-> l, store |-> st, code |-> CodePush] :
                            l \in PushLocals, st \in PushStores} :
         LET fetchedConfig == Config(Num(RateScale), Arr(<< "x", "y", "z" >>),
                                     Str("P: "), run.code)
         IN  probe' = [op |-> "dynamicLog", allAvailableLocals |-> run.locals,
                       alsStoreObj |-> run.store,
                       fetchedConfig |-> fetchedConfig,
                       out |-> ProcessConfig("K", Str("hello"), run.locals,
                                             run.store, fetchedConfig, Num(0),
                                             Returns(Undefined))]
    /\ UNCHANGED callVars

(***************************************************************************)
(* The compile-time transformer (src/unnamed/part_003).  A binding name is *)
(* an identifier or a binding pattern, whose elements are binding names.   *)
(* A parameter is a binding name and the position where it starts.  A      *)
(* child of a scope is a statement: its kind, the binding names it         *)
(* declares and the position where it ends.  An ancestor of the call is a  *)
(* node with its kind, its parameters (of a function) and its children     *)
(* other than the one that holds the call.                                 *)
(***************************************************************************)
BindingId(text) == [kind |-> "Identifier", text |-> text, elements |-> <<>>]
BindingPattern(elements) == [kind |-> "BindingPattern", text |-> "", elements |-> elements]
Parameter(name, start) == [name |-> name, start |-> start]
Statement(kind, names, end) == [kind |-> kind, names |-> names, end |-> end]
Ancestor(kind, parameters, children) ==
    [kind |-> kind, parameters |-> parameters, children |-> children]

\* An expression of the source file: an identifier, an object literal of
\* shorthand names, a call (with the name of the property it calls, "" when
\* the callee is not a property access) or any other expression.
TsExpression(text) ==
    [kind |-> "Expression", text |-> text, property |-> "", arguments |-> <<>>,
     names |-> <<>>, start |-> 0]
TsIdentifier(text) ==
    [kind |-> "Identifier", text |-> text, property |-> "", arguments |-> <<>>,
     names |-> <<>>, start |-> 0]
TsObjectLiteral(names) ==
    [kind |-> "ObjectLiteralExpression", text |-> "", property |-> "",
     arguments |-> <<>>, names |-> names, start |-> 0]
TsCall(property, arguments, start) ==
    [kind |-> "CallExpression", text |-> "", property |-> property,
     arguments |-> arguments, names |-> <<>>, start |-> start]

\* line 95
loggerMethodName == "dynamicLog"
\* lines 24-29
ScopeKinds ==
    {"Block", "SourceFile", "FunctionLike", "ModuleBlock", "CaseClause", "DefaultClause"}

\* lines 37-41 and 54-58: the elements of a pattern that are identifiers
RECURSIVE ElementIdentifiers(_, _)
ElementIdentifiers(elements, i) ==
    IF i > Len(elements) THEN <<>>
    ELSE (IF elements[i].kind = "Identifier" THEN << elements[i].text >> ELSE <<>>)
         \o ElementIdentifiers(elements, i + 1)

\* lines 34-42 and 51-59: the identifiers taken from a binding name
NameIdentifiers(name) ==
    IF name.kind = "Identifier" THEN << name.text >>
    ELSE ElementIdentifiers(name.elements, 1)

\* lines 32-44
RECURSIVE ParameterIdentifiers(_, _)
ParameterIdentifiers(parameters, i) ==
    IF i > Len(parameters) THEN <<>>
    ELSE NameIdentifiers(parameters[i].name) \o ParameterIdentifiers(parameters, i + 1)

\* lines 50-60
RECURSIVE DeclarationIdentifiers(_, _)
DeclarationIdentifiers(names, i) ==
    IF i > Len(names) THEN <<>>
    ELSE NameIdentifiers(names[i]) \o DeclarationIdentifiers(names, i + 1)

\* line 48: childNode.getEnd() < targetPosition
EndsBefore(childNode, targetPosition) == childNode.end < targetPosition

\* lines 47-66
RECURSIVE ChildIdentifiers(_, _, _)
ChildIdentifiers(children, i, targetPosition) ==
    IF i > Len(children) THEN <<>>
    ELSE (IF EndsBefore(children[i], targetPosition)
          THEN IF children[i].kind = "VariableStatement"
               THEN DeclarationIdentifiers(children[i].names, 1)
               ELSE IF children[i].kind = "ClassDeclaration" /\ Len(children[i].names) > 0
               THEN << children[i].names[1].text >>
               ELSE <<>>
          ELSE <<>>)
         \o ChildIdentifiers(children, i + 1, targetPosition)

\* lines 22-69: the walk from the call up to the source file
RECURSIVE ScopeIdentifiers(_, _, _)
ScopeIdentifiers(ancestors, i, targetPosition) ==
    IF i > Len(ancestors) THEN <<>>
    ELSE (IF ancestors[i].kind \in ScopeKinds
          THEN (IF ancestors[i].kind = "FunctionLike"
                THEN ParameterIdentifiers(ancestors[i].parameters, 1)
                ELSE <<>>)
               \o ChildIdentifiers(ancestors[i].children, 1, targetPosition)
          ELSE <<>>)
         \o ScopeIdentifiers(ancestors, i + 1, targetPosition)

\* lines 71-78: the first occurrence of each text
RECURSIVE UniqueIdentifiers(_, _, _)
UniqueIdentifiers(identifiers, i, seen) ==
    IF i > Len(identifiers) THEN <<>>
    ELSE IF identifiers[i] \in seen
    THEN UniqueIdentifiers(identifiers, i + 1, seen)
    ELSE << identifiers[i] >>
         \o UniqueIdentifiers(identifiers, i + 1, seen \cup {identifiers[i]})

\* lines 11-87
getScopedVariablesDeclaredBeforeNode(targetNode, ancestors) ==
    UniqueIdentifiers(ScopeIdentifiers(ancestors, 1, targetNode.start), 1, {})

\* lines 106-175.  A call of the logger method is given its three arguments
\* and returned as it is, its own arguments unvisited; the children of any
\* other node are visited.
RECURSIVE visitor(_, _)
visitor(node, ancestors) ==
    IF node.kind = "CallExpression" /\ node.property = loggerMethodName
    THEN IF Len(node.arguments) = 0
         THEN node
         ELSE LET scopedVars == getScopedVariablesDeclaredBeforeNode(node, ancestors)
              IN  [node EXCEPT !.arguments =
                      << node.arguments[1],
                         IF Len(node.arguments) >= 2
                         THEN node.arguments[2]
                         ELSE TsIdentifier("undefined"),
                         IF Len(scopedVars) > 0
                         THEN TsObjectLiteral(scopedVars)
                         ELSE TsIdentifier("undefined") >>]
    ELSE [node EXCEPT !.arguments =
             [i \in 1..Len(node.arguments) |-> visitor(node.arguments[i], ancestors)]]

\* Source files: a call at position TargetStart under up to MaxScopes
\* ancestors.  A statement or a parameter lies before the call (it ends at
\* PositionBefore) or after it (it starts and ends at PositionAfter).
MaxScopes == 2
TargetStart == 5
NestedStart == 7
PositionBefore == 3
PositionAfter == 9
BindingNames ==
    {BindingId("a"), BindingPattern(<< BindingId("a") >>),
     BindingPattern(<< BindingPattern(<< BindingId("a") >>) >>)}
StatementSamples ==
    {Statement("VariableStatement", << n >>, e) :
        n \in BindingNames, e \in {PositionBefore, PositionAfter}}
    \cup {Statement(k, << BindingId("b") >>, e) :
             k \in {"ClassDeclaration", "FunctionDeclaration"},
             e \in {PositionBefore, PositionAfter}}
ParameterSamples ==
    {Parameter(n, PositionBefore) : n \in BindingNames}
    \cup {Parameter(BindingId("b"), PositionAfter)}
AncestorSamples ==
    {Ancestor("Block", <<>>, <<>>)}
    \cup {Ancestor("Block", <<>>, << st >>) : st \in StatementSamples}
    \cup {Ancestor("FunctionLike", <<>>, <<>>)}
    \cup {Ancestor("FunctionLike", << p >>, <<>>) : p \in ParameterSamples}
    \cup {Ancestor("ForStatement", <<>>,
                   << Statement("VariableDeclarationList", << BindingId("a") >>,
                                PositionBefore) >>)}
AncestorChains == UNION {[1..k -> AncestorSamples] : k \in 1..MaxScopes}

\* d.dynamicLog("K"), d.dynamicLog("K", m), d.dynamicLog(), d.log("K"),
\* f(d.dynamicLog("J")) and d.dynamicLog("K", d.dynamicLog("J"))
CallSamples ==
    {TsCall("dynamicLog", << TsExpression("K") >>, TargetStart),
     TsCall("dynamicLog", << TsExpression("K"), TsExpression("m") >>, TargetStart),
     TsCall("dynamicLog", <<>>, TargetStart),
     TsCall("log", << TsExpression("K") >>, TargetStart),
     TsCall("", << TsCall("dynamicLog", << TsExpression("J") >>, NestedStart) >>,
            TargetStart),
     TsCall("dynamicLog",
            << TsExpression("K"),
               TsCall("dynamicLog", << TsExpression("J") >>, NestedStart) >>,
            TargetStart)}

\* lines 103-176: the transformer applied to a source file
ApplyTransformer ==
    /\ probe = NoProbe
    /\ \E node \in CallSamples, ancestors \in AncestorChains :
         probe' = [op |-> "transformer", node |-> node, ancestors |-> ancestors,
                   out |-> visitor(node, ancestors)]
    /\ UNCHANGED callVars

\* Variable contexts, some with an entry named as the engine names its own.
ScopeNames == {"x", "als", "Math"}
ScopeContexts ==
    {Obj(q, [i \in 1..Len(q) |-> Num(7)]) :
        q \in {r \in UNION {[1..k -> ScopeNames] : k \in 0..MaxVars} :
                  \A i, j \in 1..Len(r) : r[i] = r[j] => i = j}}

\* lines 206-221
ApplyEvalContext ==
    /\ probe = NoProbe
    /\ \E contextLocals \in ScopeContexts :
         probe' = [op |-> "evalContext", contextLocals |-> contextLocals,
                   out |-> evalContext(contextLocals)]
    /\ UNCHANGED callVars

PureNext ==
    \/ ApplyTransformer
    \/ ApplyEvalContext
    \/ ApplyMergeContext
    \/ ApplyFilterVars
    \/ ApplySerializeValue
    \/ ApplyFormatLogString
    \/ ApplyValidateTSCode
    \/ ApplyProcessConfig

PureSpec == PureInit /\ [][PureNext]_vars

(***************************************************************************)
(* Vocabulary of the properties.                                           *)
(***************************************************************************)
\* The sink invocations made by call c.
SinkEntries(c) == {i \in 1..Len(sinkLog) : sinkLog[i].call = c}
SinkCount(c) == Cardinality(SinkEntries(c))

\* The call has been made and has run to its end.
Done(c) == pc[c] \in Finished

\* The timer fired while the fetch promise was still pending.
TimerFirst(c) == Len(settled[c]) > 0 /\ settled[c][1] = "timer"
\* The fetch promise settled while the timer was still pending.
FetchFirst(c) == Len(settled[c]) > 0 /\ settled[c][1] = "fetch"

\* A config with the two required fields: a numeric SamplingRate and an
\* array VariablesToLog.
WellFormed(cfg) ==
    /\ cfg.t = "object"
    /\ cfg.SamplingRate.t \in {"number", "NaN"}
    /\ cfg.VariablesToLog.isArray

\* The fetch failed before the timer fired: the fetcher threw at line 120,
\* or its promise was rejected while the timer was pending.
FetchFailedFirst(c) ==
    \/ FetchFirst(c) /\ fetchPromise[c].state = "rejected"
    \/ fetcherCalls[c] # << >> /\ fetchPromise[c].state = "none"

(***************************************************************************)
(* C1.  The promise dynamicLog returns is never rejected, whatever the     *)
(* key, the fetch outcome, the config, the custom code, the sink and the   *)
(* verbose flag.                                                           *)
(***************************************************************************)
C1_NeverRejects == \A c \in Calls : result[c] # "rejected"

(***************************************************************************)
(* C2.  When the timer fires before the fetch settles, the sink is never   *)
(* invoked for the call and the call can only abort, also when the fetch   *)
(* resolves later with a well-formed config of sampling rate 1.            *)
(***************************************************************************)
C2_TimeoutNeverLogs ==
    \A c \in Calls :
        TimerFirst(c) => /\ SinkCount(c) = 0
                         /\ pc[c] \in {"awaiting", "Aborted"}

C2_Witness ==
    \E c \in Calls :
        /\ TimerFirst(c)
        /\ fetchPromise[c] = Fulfilled(Config(Num(RateScale), BaseVars, Str("P: "), NoCode))
        /\ pc[c] = "Aborted"
        /\ SinkCount(c) = 0

(***************************************************************************)
(* C3.  When the fetch resolves with a value before the timer fires, the   *)
(* race holds that value and the sink is invoked at most once; the later   *)
(* firing of the timer changes neither the state of the call, nor its      *)
(* promise, nor the race, nor the sink's log, and leaves no unhandled      *)
(* rejection.                                                              *)
(***************************************************************************)
FetchResolvedFirst(c) == FetchFirst(c) /\ fetchPromise[c].state = "fulfilled"

C3_ValueDecides ==
    \A c \in Calls :
        FetchResolvedFirst(c) => /\ racePromise[c] = fetchPromise[c]
                                 /\ SinkCount(c) <= 1
                                 /\ unhandledRejections = {}

C3_LateTimerStep ==
    \A c \in Calls :
        (FetchResolvedFirst(c) /\ timer[c] = "armed" /\ timer'[c] = "fired")
            => /\ pc'[c] = pc[c]
               /\ result'[c] = result[c]
               /\ racePromise'[c] = racePromise[c]
               /\ sinkLog' = sinkLog
               /\ unhandledRejections' = unhandledRejections

C3_LateTimerIsInert == [](C3_ValueDecides) /\ [][C3_LateTimerStep]_vars

C3_Witness ==
    \E c \in Calls :
        /\ FetchResolvedFirst(c)
        /\ settled[c] = << "fetch", "timer" >>
        /\ pc[c] = "Delivered"
        /\ SinkCount(c) = 1
        /\ result[c] = "fulfilled"

(***************************************************************************)
(* C4.  Every call that is suspended on the race eventually ends aborted,  *)
(* skipped, delivered or delivery-failed, given that a started timer       *)
(* fires, even when the fetch never settles.                               *)
(***************************************************************************)
C4_ReachesTerminal ==
    \A c \in Calls : (pc[c] = "awaiting") ~> (pc[c] \in Terminal)

(***************************************************************************)
(* C5.  When the fetch fails before the timer fires, the call is aborted:  *)
(* the sink is not invoked and the promise of the call is fulfilled, with  *)
(* the verbose flag on as well as off and for every rejection reason.      *)
(***************************************************************************)
C5_FetchFailureAborts ==
    \A c \in Calls :
        (FetchFailedFirst(c) /\ Done(c))
            => /\ pc[c] = "Aborted"
               /\ result[c] = "fulfilled"
               /\ SinkCount(c) = 0

(***************************************************************************)
(* C6.  When the sink throws, whatever the thrown value, the call ends     *)
(* delivery-failed and its promise is fulfilled.                           *)
(***************************************************************************)
C6_SinkThrowIsCaught ==
    \A i \in 1..Len(sinkLog) :
        sinkLog[i].outcome.threw
            => /\ pc[sinkLog[i].call] = "DeliveryFailed"
               /\ result[sinkLog[i].call] = "fulfilled"

(***************************************************************************)
(* C7.  When a custom expression that passed validation throws, whatever   *)
(* the thrown value, the sink is invoked exactly once, with the line whose *)
(* custom output is the diagnostic <EvalError: message>.                   *)
(***************************************************************************)
\* The call got past the sampling gate with a custom expression that
\* passed validation and threw when it was run.
EvalThrew(c) ==
    LET cfg == racePromise[c].config
        ctx == MergeContext(args[c].allAvailableLocals, alsStore)
    IN  /\ Done(c)
        /\ racePromise[c].state = "fulfilled"
        /\ WellFormed(cfg)
        /\ pc[c] # "Skipped"
        /\ HasCustomCode(cfg.CustomLoggingCode)
        /\ validateTSCode(cfg.CustomLoggingCode, ctx.names).isValid
        /\ cfg.CustomLoggingCode.result.threw

\* The line of call c when its custom output is the given text.
LineWithCustom(c, text) ==
    LET cfg == racePromise[c].config
        ctx == MergeContext(args[c].allAvailableLocals, alsStore)
        filteredVars == FilterVars(ctx, cfg.VariablesToLog.items)
    IN  formatLogString(args[c].uniqueKey,
                        PrefixOf(cfg) \o MetadataString(args[c].metadata),
                        IF Len(filteredVars.names) > 0 THEN filteredVars ELSE NoObject,
                        Str(text))

C7_EvalThrowIsLogged ==
    \A c \in Calls :
        EvalThrew(c)
            => LET thrown == racePromise[c].config.CustomLoggingCode.result.val
                   text == IF thrown.t = "Error" THEN thrown.s ELSE "undefined"
               IN  /\ SinkCount(c) = 1
                   /\ \A i \in SinkEntries(c) :
                          sinkLog[i].line = LineWithCustom(c, "<EvalError: " \o text \o ">")

(***************************************************************************)
(* C8.  A call with an empty key ends aborted with its promise fulfilled,  *)
(* without the fetcher having been invoked, a timer started or the sink    *)
(* invoked.                                                                *)
(***************************************************************************)
C8_EmptyKeyNoIO ==
    \A c \in Calls :
        (pc[c] # "idle" /\ args[c].uniqueKey = "")
            => /\ pc[c] = "Aborted"
               /\ result[c] = "fulfilled"
               /\ fetcherCalls[c] = << >>
               /\ fetchPromise[c].state = "none"
               /\ timer[c] = "none"
               /\ SinkCount(c) = 0

C8_Witness ==
    \E c \in Calls : pc[c] = "Aborted" /\ args[c].uniqueKey = "" /\ result[c] = "fulfilled"

(***************************************************************************)
(* C9.  When the race gives null, or a config whose SamplingRate is not a  *)
(* number or whose VariablesToLog is not an array, the call ends aborted   *)
(* and the sink is not invoked; a config with both required fields never   *)
(* ends aborted, whatever its prefix and custom code.                      *)
(***************************************************************************)
C9_MalformedAborts ==
    \A c \in Calls :
        (Done(c) /\ racePromise[c].state = "fulfilled")
            => LET cfg == racePromise[c].config
               IN  IF \/ cfg.t = "null"
                      \/ cfg.SamplingRate.t \notin {"number", "NaN"}
                      \/ ~cfg.VariablesToLog.isArray
                   THEN pc[c] = "Aborted" /\ SinkCount(c) = 0 /\ result[c] = "fulfilled"
                   ELSE pc[c] # "Aborted"

C9_Witness ==
    \E c, d \in Calls :
        /\ pc[c] = "Aborted"
        /\ racePromise[c] = Fulfilled(Config(Num(RateScale), NotArr, Str("P: "), NoCode))
        /\ pc[d] = "Delivered"
        /\ racePromise[d].state = "fulfilled"

(***************************************************************************)
(* C10.  A call with a well-formed config gets past the sampling gate iff  *)
(* rate >= 1, or rate > 0 and the draw is below the rate.                  *)
(***************************************************************************)
\* The documented policy, for a rate and a draw in units of 1 / RateScale.
GatePolicy(rate, draw) ==
    /\ rate.t = "number"
    /\ \/ rate.n >= RateScale
       \/ rate.n > 0 /\ draw.n < rate.n

C10_SamplingPolicy ==
    \A c \in Calls :
        (Done(c) /\ racePromise[c].state = "fulfilled" /\ WellFormed(racePromise[c].config))
            => LET rate == racePromise[c].config.SamplingRate
                   draw == IF Len(drawn[c]) > 0 THEN drawn[c][1] ELSE Num(0)
               IN  (pc[c] # "Skipped") <=> GatePolicy(rate, draw)

(***************************************************************************)
(* C11.  The merged context has exactly the names of the locals and of the *)
(* store, each once; a name the locals own keeps the local value, also an  *)
(* undefined or null one, and a store value is used only for a name the    *)
(* locals do not own.  An absent source counts as an empty one.            *)
(***************************************************************************)
C11_LocalWins ==
    probe.op = "MergeContext"
        => LET locals == probe.locals
               store  == probe.store
               out    == probe.out
           IN  /\ SeqToSet(out.names) = SeqToSet(locals.names) \cup SeqToSet(store.names)
               /\ Len(out.names) = Cardinality(SeqToSet(out.names))
               /\ \A i \in 1..Len(out.names) :
                      IF HasOwn(locals, out.names[i])
                      THEN out.vals[i] = Get(locals, out.names[i])
                      ELSE out.vals[i] = Get(store, out.names[i])

C11_Witness ==
    /\ probe.op = "MergeContext"
    /\ probe.locals = Obj(<< "x" >>, << Undefined >>)
    /\ probe.store = Obj(<< "x", "y" >>, << Num(2), Num(2) >>)
    /\ probe.out = Obj(<< "x", "y" >>, << Undefined, Num(2) >>)

(***************************************************************************)
(* C12.  The filtered variables are exactly the names that occur in        *)
(* VariablesToLog and are present in the context, each once, in the order  *)
(* of their first occurrence in VariablesToLog, each with the serialised   *)
(* form of its context value; a requested name the context lacks and a     *)
(* context name that was not requested do not appear.                      *)
(***************************************************************************)
\* The index of the first occurrence of a name in a sequence that holds it.
FirstIndex(q, name) ==
    CHOOSE i \in 1..Len(q) : q[i] = name /\ \A j \in 1..(i - 1) : q[j] # name

C12_FilterExact ==
    probe.op = "FilterVars"
        => LET ctx == probe.contextLocals
               vtl == probe.variablesToLog
               out == probe.out
           IN  /\ SeqToSet(out.names) = SeqToSet(vtl) \cap SeqToSet(ctx.names)
               /\ Len(out.names) = Cardinality(SeqToSet(out.names))
               /\ \A i, j \in 1..Len(out.names) :
                      i < j => FirstIndex(vtl, out.names[i]) < FirstIndex(vtl, out.names[j])
               /\ \A i \in 1..Len(out.names) :
                      out.vals[i] = serializeValue(Get(ctx, out.names[i]))

C12_Witness ==
    /\ probe.op = "FilterVars"
    /\ probe.contextLocals = Obj(<< "x", "y" >>, << Num(7), Str("s") >>)
    /\ probe.variablesToLog = << "y", "x", "y" >>
    /\ probe.out = Obj(<< "y", "x" >>, << "s", "7" >>)

(***************************************************************************)
(* C13.  Serialising a value never aborts the call: a string is rendered   *)
(* as itself, undefined as the text undefined, null as the text null, any  *)
(* other value as its JSON text, and a value JSON.stringify throws on as   *)
(* <unserializable>; a call whose context holds such a value still gives   *)
(* the sink one line, with every requested variable in it.                 *)
(***************************************************************************)
\* s holds sub as a substring.
Contains(s, sub) ==
    \E i \in 1..(Len(s) - Len(sub) + 1) : SubSeq(s, i, i + Len(sub) - 1) = sub
StartsWith(s, sub) == Len(s) >= Len(sub) /\ SubSeq(s, 1, Len(sub)) = sub
EndsWith(s, sub) ==
    Len(s) >= Len(sub) /\ SubSeq(s, Len(s) - Len(sub) + 1, Len(s)) = sub

\* The rendering the claim gives for each kind of value.
Rendering(v) ==
    CASE v.t = "string"    -> v.s
      [] v.t = "undefined" -> "undefined"
      [] v.t = "null"      -> "null"
      [] v.t = "number"    -> ToString(v.n)
      [] v.t = "NaN"       -> "null"
      [] v.t = "Error"     -> "{}"
      [] v.t = "cyclic"    -> "<unserializable>"

C13_SerializeNeverAborts ==
    /\ probe.op = "serializeValue" => probe.out = Rendering(probe.value)
    /\ (probe.op = "dynamicLog" /\ probe.fetchedConfig.CustomLoggingCode = NoCode)
           => LET locals == probe.allAvailableLocals
              IN  /\ probe.out.pc = "Delivered"
                  /\ Len(probe.out.lines) = 1
                  /\ \A i \in 1..Len(locals.names) :
                         Contains(probe.out.lines[1],
                                  "\"" \o locals.names[i] \o "\":\""
                                       \o Rendering(locals.vals[i]) \o "\"")

C13_Witness ==
    /\ probe.op = "dynamicLog"
    /\ probe.fetchedConfig.CustomLoggingCode = NoCode
    /\ probe.allAvailableLocals = Obj(<< "y", "x" >>, << Cyclic, Str("s") >>)
    /\ probe.out.pc = "Delivered"
    /\ probe.out.lines =
         << "Unique Key: [K] - Message: [P: hello] - Variable Values: {\"x\":\"s\",\"y\":\"<unserializable>\"} - Output of Custom Logging Code: [NA]" >>

(***************************************************************************)
(* C14.  For key K, the config {VariablesToLog: [x], SamplingRate: 1,      *)
(* PrefixMessage: "P: "} without custom code, the message hello and the    *)
(* context {x: 7}, the sink is given exactly one line.  As claimed, the    *)
(* line stops after the variable values; as amended, the line goes on with *)
(* the segment ` - Output of Custom Logging Code: [NA]`.                   *)
(***************************************************************************)
\* Call c is the call of the example and has run to its end.
C14_ExampleCall(c) ==
    /\ Done(c)
    /\ args[c] = Args("K", Str("hello"), Obj(<< "x" >>, << Num(7) >>))
    /\ racePromise[c] = Fulfilled(Config(Num(RateScale), BaseVars, Str("P: "), NoCode))

\* C14 as claimed: nothing follows the variable values.
C14_LineStopsAfterVariables ==
    \A c \in Calls :
        C14_ExampleCall(c)
            => /\ SinkCount(c) = 1
               /\ \A i \in SinkEntries(c) :
                      sinkLog[i].line =
                          "Unique Key: [K] - Message: [P: hello] - Variable Values: {\"x\":\"7\"}"

\* C14 as amended: the line of the example ends with the custom-output
\* segment holding NA.
C14_LineEndsWithNA ==
    \A c \in Calls :
        C14_ExampleCall(c)
            => /\ SinkCount(c) = 1
               /\ \A i \in SinkEntries(c) :
                      sinkLog[i].line =
                          "Unique Key: [K] - Message: [P: hello] - Variable Values: {\"x\":\"7\"} - Output of Custom Logging Code: [NA]"

C14_Witness ==
    \E c \in Calls :
        /\ C14_ExampleCall(c)
        /\ pc[c] = "Delivered"
        /\ SinkCount(c) = 1

(***************************************************************************)
(* C15.  When the config carries no custom code (the field is absent, is   *)
(* not a string, or is blank after trimming), neither the validator nor    *)
(* the evaluator is called and the line given to the sink ends with        *)
(* ` - Output of Custom Logging Code: [NA]`.                               *)
(***************************************************************************)
\* Call c got a well-formed config and went past the sampling gate.
PastGate(c) ==
    /\ Done(c)
    /\ racePromise[c].state = "fulfilled"
    /\ WellFormed(racePromise[c].config)
    /\ pc[c] # "Skipped"

\* The field is absent, not a string, or blank.
CarriesNoCode(code) == code.t = "undefined" \/ code.t # "string" \/ code.blank

C15_NoCodeGivesNA ==
    \A c \in Calls :
        (PastGate(c) /\ CarriesNoCode(racePromise[c].config.CustomLoggingCode))
            => /\ customRuns[c] = NoRuns
               /\ SinkCount(c) = 1
               /\ \A i \in SinkEntries(c) :
                      EndsWith(sinkLog[i].line, " - Output of Custom Logging Code: [NA]")

C15_Witness ==
    \E c \in Calls :
        /\ PastGate(c)
        /\ racePromise[c].config.CustomLoggingCode = BlankCode
        /\ customRuns[c] = NoRuns
        /\ pc[c] = "Delivered"
        /\ \E i \in SinkEntries(c) :
               EndsWith(sinkLog[i].line, "{\"x\":\"7\"} - Output of Custom Logging Code: [NA]")

(***************************************************************************)
(* C16.  Every line given to the sink begins with                          *)
(* `Unique Key: [key] - Message: [message]`, holds the segment             *)
(* ` - Variable Values: ` iff at least one variable was filtered in, and   *)
(* is the format of the key, message, filtered variables and custom output *)
(* of its own call, whatever calls were made or logged before it.          *)
(***************************************************************************)
C16_FormatShape ==
    \A i \in 1..Len(sinkLog) :
        LET c      == sinkLog[i].call
            cfg    == racePromise[c].config
            ctx    == MergeContext(args[c].allAvailableLocals, alsStore)
            fv     == FilterVars(ctx, cfg.VariablesToLog.items)
            msg    == PrefixOf(cfg) \o MetadataString(args[c].metadata)
            custom == CustomCodeOutput(cfg.CustomLoggingCode, ctx)
        IN  /\ StartsWith(sinkLog[i].line,
                          "Unique Key: [" \o args[c].uniqueKey \o "] - Message: [" \o msg \o "]")
            /\ Contains(sinkLog[i].line, " - Variable Values: ") <=> Len(fv.names) > 0
            /\ sinkLog[i].line =
                   formatLogString(args[c].uniqueKey, msg,
                                   IF Len(fv.names) > 0 THEN fv ELSE NoObject,
                                   Str(custom.out))

C16_Witness ==
    /\ Len(sinkLog) = 2
    /\ sinkLog[1].call = 2
    /\ sinkLog[2].call = 1
    /\ sinkLog[1].line = "Unique Key: [L] - Message: [P: ] - Output of Custom Logging Code: [NA]"
    /\ Contains(sinkLog[2].line, " - Variable Values: {\"x\":\"7\"}")

(***************************************************************************)
(* C17.  A custom expression is run only when its validation succeeded.    *)
(* When validation fails the expression is not run, the violations are the *)
(* custom output, and the sink is still invoked exactly once, with the     *)
(* key, the message and the filtered variables of the call.                *)
(***************************************************************************)
\* The validator's verdict on the custom code of call c.
ValidationOf(c) ==
    validateTSCode(racePromise[c].config.CustomLoggingCode,
                   MergeContext(args[c].allAvailableLocals, alsStore).names)

C17_InvalidNeverRuns ==
    \A c \in Calls :
        /\ customRuns[c].evaluated
               => /\ customRuns[c].validated
                  /\ ValidationOf(c).isValid
        /\ (/\ PastGate(c)
            /\ HasCustomCode(racePromise[c].config.CustomLoggingCode)
            /\ ~ValidationOf(c).isValid)
               => /\ customRuns[c] = [validated |-> TRUE, evaluated |-> FALSE]
                  /\ SinkCount(c) = 1
                  /\ \A i \in SinkEntries(c) :
                         sinkLog[i].line =
                             LineWithCustom(c, "<ValidationViolations: "
                                 \o JSONStringifyViolations(ValidationOf(c).violations)
                                 \o ">")

C17_Witness ==
    \E c \in Calls :
        /\ PastGate(c)
        /\ racePromise[c].config.CustomLoggingCode = CodeFetchData
        /\ ~customRuns[c].evaluated
        /\ \E i \in SinkEntries(c) :
               sinkLog[i].line =
                   "Unique Key: [K] - Message: [P: hello] - Variable Values: {\"x\":\"7\"} - Output of Custom Logging Code: [<ValidationViolations: [{\"message\":\"Disallowed function call: fetchData\",\"location\":\"Line 1\"}]>]"

(***************************************************************************)
(* C18.  The keyword violations the validator reports for a line of the    *)
(* expression.  As claimed: one violation for a line that holds one or     *)
(* more disallowed keywords, however many, and none for a line that holds  *)
(* none.  As amended: one violation for each distinct disallowed keyword   *)
(* the line holds, with the message of that keyword, and none for a line   *)
(* that holds none.                                                        *)
(***************************************************************************)
KeywordIndexes == 1..Len(disallowedKeywords)
\* The disallowed keywords among the whole words of a line.
KeywordsOn(line) ==
    {k \in KeywordIndexes : disallowedKeywords[k].keyword \in line.words}
\* The violations reported for line lineNo with the message of keyword k.
ReportsOf(violations, k, lineNo) ==
    {i \in 1..Len(violations) :
        violations[i] = Violation(disallowedKeywords[k].message, lineNo)}
\* The keyword violations reported for line lineNo.
KeywordReports(violations, lineNo) ==
    UNION {ReportsOf(violations, k, lineNo) : k \in KeywordIndexes}

\* C18 as claimed: one keyword violation per matching line.
C18_OneViolationPerLine ==
    probe.op = "validateTSCode"
        => \A n \in 1..Len(probe.code.lines) :
               Cardinality(KeywordReports(probe.out.violations, n))
                   = IF KeywordsOn(probe.code.lines[n]) # {} THEN 1 ELSE 0

\* C18 as amended: one keyword violation per line and distinct keyword.
C18_OneViolationPerKeyword ==
    probe.op = "validateTSCode"
        => \A n \in 1..Len(probe.code.lines) :
               /\ \A k \in KeywordIndexes :
                      Cardinality(ReportsOf(probe.out.violations, k, n))
                          = IF k \in KeywordsOn(probe.code.lines[n]) THEN 1 ELSE 0
               /\ KeywordsOn(probe.code.lines[n]) = {}
                      => KeywordReports(probe.out.violations, n) = {}

C18_Witness ==
    /\ probe.op = "validateTSCode"
    /\ Len(probe.code.lines) = 2
    /\ probe.code.lines[1].words = {"x"}
    /\ probe.code.lines[2].words = {"process", "eval", "x"}
    /\ probe.code.lines[2].assigns = << >>
    /\ probe.out.violations =
         << Violation("Usage of 'process' object is disallowed.", 2),
            Violation("Usage of 'eval' is disallowed.", 2) >>

(***************************************************************************)
(* C19.  A call whose callee is an inline function expression invoked on   *)
(* the spot (an IIFE, in arrow or function form) is a safe call: an        *)
(* expression made of such calls, breaking no other rule, is found valid   *)
(* with no violation, and as custom code it is evaluated and its value     *)
(* logged.                                                                 *)
(***************************************************************************)
IsIIFE(node) == node.type = "CallExpression" /\ node.callee.type \in IIFEForms

C19_IIFEIsSafe ==
    /\ (/\ probe.op = "validateTSCode"
        /\ Len(probe.code.nodes) > 0
        /\ \A i \in 1..Len(probe.code.nodes) : IsIIFE(probe.code.nodes[i]))
           => /\ probe.out.isValid
              /\ probe.out.violations = << >>
    /\ (/\ probe.op = "dynamicLog"
        /\ probe.fetchedConfig.CustomLoggingCode \in {IIFECode(f) : f \in IIFEForms})
           => /\ probe.out.evaluated
              /\ probe.out.pc = "Delivered"
              /\ \A i \in 1..Len(probe.out.lines) :
                     EndsWith(probe.out.lines[i], " - Output of Custom Logging Code: [1]")

(***************************************************************************)
(* C20.  In the walk over the syntax tree a call is reported iff its       *)
(* callee is unsafe.  A bare name is safe iff it is in the global          *)
(* allow-list or among the known names; a property access is safe iff its  *)
(* base, under all the nested property accesses, is such a name or a       *)
(* literal, array literal, object literal or template literal.  Every      *)
(* unsafe call gives one violation, with the callee and the line of the    *)
(* call.                                                                   *)
(***************************************************************************)
SafeName(name, knownSafeNames) ==
    name \in safeGlobalObjectsAndNamespaces \/ name \in SeqToSet(knownSafeNames)

\* The callee of the call is safe, as the claim has it.
SafeAsClaimed(node, knownSafeNames) ==
    IF node.callee.type = "Identifier"
    THEN SafeName(node.callee.name, knownSafeNames)
    ELSE LET base == node.chain[Len(node.chain)]
         IN  IF base.type = "Identifier"
             THEN SafeName(base.name, knownSafeNames)
             ELSE base.type \in {"Literal", "ArrayExpression", "ObjectExpression",
                                 "TemplateLiteral"}

\* The violation names the callee of the call.
NamesCallee(violation, node) ==
    /\ StartsWith(violation.message, "Disallowed function call: ")
    /\ IF node.callee.type = "Identifier"
       THEN violation.message = "Disallowed function call: " \o node.callee.name
       ELSE /\ EndsWith(violation.message, "." \o node.prop.name)
            /\ node.chain[1].type = "Identifier"
                   => Contains(violation.message, node.chain[1].name \o ".")

C20_UnsafeCallsReported ==
    (/\ probe.op = "validateTSCode"
     /\ LexicalViolations(probe.code.lines, 1) = << >>
     /\ \A i \in 1..Len(probe.code.nodes) :
            probe.code.nodes[i].callee.type \in {"Identifier", "MemberExpression"})
        => LET nodes  == probe.code.nodes
               out    == probe.out
               unsafe == {i \in 1..Len(nodes) :
                             ~SafeAsClaimed(nodes[i], probe.availableLocals)}
           IN  /\ out.isValid <=> unsafe = {}
               /\ Len(out.violations) = Cardinality(unsafe)
               /\ \A i \in unsafe :
                      \E j \in 1..Len(out.violations) :
                          /\ out.violations[j].location = "Line " \o ToString(nodes[i].line)
                          /\ NamesCallee(out.violations[j], nodes[i])

C20_Witness ==
    /\ probe.op = "validateTSCode"
    /\ probe.availableLocals = << "myLocal" >>
    /\ probe.code = CallCode(<< MemberCall(Ident("myLocal"), 1, 1), IdentCall("fetchData", 2) >>)
    /\ ~probe.out.isValid
    /\ probe.out.violations = << Violation("Disallowed function call: fetchData", 2) >>

(***************************************************************************)
(* The life cycle of the singleton: the static API called with any         *)
(* arguments, in any order, and dynamicLog calls on the instance it gave.  *)
(***************************************************************************)
\* lines 50-66
DLInitializer(fetcher, sink, options) ==
    /\ IF InstanceMissing(instance)
       THEN IF RequiredMissing(fetcher, sink)
            THEN /\ lastCall' = ApiCall("DLInitializer", fetcher, sink, options,
                                        FALSE, TRUE, NoInstance)
                 /\ UNCHANGED << instance, configFetcher, logFunction,
                                 fetchTimeoutMs, internalVerbose >>
            ELSE LET new == NewDynamicLogger(fetcher, sink, options)
                 IN  /\ instance' = instance + 1
                     /\ configFetcher' = new.configFetcher
                     /\ logFunction' = new.logFunction
                     /\ fetchTimeoutMs' = new.fetchTimeoutMs
                     /\ internalVerbose' = new.internalVerbose
                     /\ lastCall' = ApiCall("DLInitializer", fetcher, sink, options,
                                            FALSE, FALSE, instance + 1)
       ELSE /\ lastCall' = ApiCall("DLInitializer", fetcher, sink, options,
                                   TRUE, FALSE, instance)
            /\ UNCHANGED << instance, configFetcher, logFunction,
                            fetchTimeoutMs, internalVerbose >>
    /\ UNCHANGED << alsStore, pc, args, fetchPromise, timer, racePromise, result,
                    fetcherCalls, sinkLog, unhandledRejections, settled, drawn,
                    customRuns, timerMs, sourcesRead, probe >>

\* lines 69-74
GetInstance ==
    /\ lastCall' = ApiCall("getInstance", Undefined, Undefined, NoOptions,
                           ~InstanceMissing(instance), InstanceMissing(instance),
                           instance)
    /\ UNCHANGED << instance, configFetcher, logFunction, fetchTimeoutMs,
                    internalVerbose, alsStore, pc, args, fetchPromise, timer,
                    racePromise, result, fetcherCalls, sinkLog, unhandledRejections,
                    settled, drawn, customRuns, timerMs, sourcesRead, probe >>

\* Before any module has called DLInitializer.
LifecycleInit ==
    /\ internalVerbose = FALSE
    /\ alsStore = NoObject
    /\ pc = [c \in Calls |-> "idle"]
    /\ args = [c \in Calls |-> NoArgs]
    /\ fetchPromise = [c \in Calls |-> NoPromise]
    /\ timer = [c \in Calls |-> "none"]
    /\ racePromise = [c \in Calls |-> NoPromise]
    /\ result = [c \in Calls |-> "none"]
    /\ fetcherCalls = [c \in Calls |-> <<>>]
    /\ sinkLog = <<>>
    /\ unhandledRejections = {}
    /\ settled = [c \in Calls |-> << >>]
    /\ drawn = [c \in Calls |-> << >>]
    /\ customRuns = [c \in Calls |-> NoRuns]
    /\ instance = NoInstance
    /\ configFetcher = Undefined
    /\ logFunction = Undefined
    /\ fetchTimeoutMs = Undefined
    /\ lastCall = NoCall
    /\ timerMs = [c \in Calls |-> Undefined]
    /\ sourcesRead = [c \in Calls |-> FALSE]
    /\ probe = NoProbe

LifecycleNext ==
    \/ \E fetcher \in FetcherSamples, sink \in SinkSamples, options \in OptionSamples :
           DLInitializer(fetcher, sink, options)
    \/ GetInstance
    \/ \E c \in Calls :
           \/ DynamicLogStart(c)
           \/ TimerFire(c)
           \/ ResumeRejected(c)

LifecycleSpec == LifecycleInit /\ [][LifecycleNext]_vars

(***************************************************************************)
(* Vocabulary of the singleton's properties.                               *)
(***************************************************************************)
InstanceFields == << instance, configFetcher, logFunction, fetchTimeoutMs, internalVerbose >>
\* The step is a call of DLInitializer (a call that repeats the last one
\* without effect leaves every variable as it was).
InitializerStep == lastCall' # lastCall /\ lastCall'.op = "DLInitializer"
\* The last call was the DLInitializer call that built the instance.
Created == lastCall.op = "DLInitializer" /\ ~lastCall.existed /\ ~lastCall.threw
ArgumentMissing(call) == ~Truthy(call.configFetcher) \/ ~Truthy(call.logFunction)

\* C22 (as stated): a DLInitializer call made once an instance exists is an
\* error: it throws, whatever its arguments.
C22_ReinitIsError ==
    [][(instance # NoInstance /\ InitializerStep) => lastCall'.threw]_vars

\* C22 (amended): a DLInitializer call made once an instance exists never
\* throws: it returns the existing instance, whatever its arguments, and
\* builds nothing.
C22_ReinitReturnsExisting ==
    [][(instance # NoInstance /\ InitializerStep)
          => /\ ~lastCall'.threw
             /\ lastCall'.returned = instance
             /\ instance' = instance]_vars

\* A second DLInitializer call, with another fetcher and sink, has returned
\* the instance the first one built.
C22_Witness ==
    /\ lastCall.op = "DLInitializer"
    /\ lastCall.existed
    /\ ~lastCall.threw
    /\ lastCall.returned = instance
    /\ Truthy(lastCall.configFetcher) /\ lastCall.configFetcher # configFetcher
    /\ Truthy(lastCall.logFunction) /\ lastCall.logFunction # logFunction

\* C28: the timer of a call has the duration supplied when the instance was
\* built, whatever was supplied (0 included), and 2000 when none was.
C28_TimerHasSuppliedDuration ==
    \A c \in Calls :
        (Created /\ timer[c] # "none")
            => timerMs[c] = IF lastCall.options.fetchTimeoutMs.t = "undefined"
                            THEN Num(2000)
                            ELSE lastCall.options.fetchTimeoutMs

\* C30: the singleton invariant.  getInstance throws exactly while there is
\* no instance; a DLInitializer call that throws was given no fetcher or no
\* sink and left no instance; a call of either that returns, returns the one
\* instance.
C30_CallsAgree ==
    /\ instance \in {NoInstance, 1}
    /\ lastCall.op = "getInstance"
          => /\ lastCall.threw <=> instance = NoInstance
             /\ lastCall.returned = instance
    /\ lastCall.op = "DLInitializer"
          => /\ lastCall.threw => (instance = NoInstance /\ ArgumentMissing(lastCall))
             /\ ~lastCall.threw => (instance = 1 /\ lastCall.returned = 1)
             /\ instance = NoInstance => ArgumentMissing(lastCall)

\* C30: a first DLInitializer call without a fetcher or a sink throws and
\* builds nothing; once there is an instance, no call changes it or any of
\* its fetcher, sink, timeout and verbose flag.
C30_InstanceStep ==
    /\ (instance = NoInstance /\ InitializerStep /\ ArgumentMissing(lastCall'))
          => (lastCall'.threw /\ instance' = NoInstance)
    /\ instance # NoInstance => UNCHANGED InstanceFields

\* C30: the singleton invariant, of the states and of the steps.
C30_Singleton == [](C30_CallsAgree) /\ [][C30_InstanceStep]_vars

\* An instance built with a timeout of 5000 and the verbose flag set has
\* survived a DLInitializer call that passed no fetcher, no sink and no
\* options, while one of its dynamicLog calls is waiting.
C30_Witness ==
    /\ instance = 1
    /\ lastCall.op = "DLInitializer" /\ lastCall.existed /\ ~lastCall.threw
    /\ lastCall.configFetcher = Undefined /\ lastCall.logFunction = Undefined
    /\ lastCall.options = NoOptions
    /\ Truthy(configFetcher) /\ Truthy(logFunction)
    /\ fetchTimeoutMs = Num(5000) /\ internalVerbose
    /\ \E c \in Calls : pc[c] = "awaiting" /\ timerMs[c] = Num(5000)

(***************************************************************************)
(* C21.  An expression with an assignment expression anywhere in its       *)
(* syntax tree (simple or compound operator; at the top level, in a call   *)
(* argument, in a function body or in a template-literal substitution) is  *)
(* reported invalid by the validator, and dynamicLog never evaluates it.   *)
(***************************************************************************)
HasAssignment(code) ==
    /\ code.t = "string"
    /\ \E i \in 1..Len(code.nodes) : code.nodes[i].type = "AssignmentExpression"

C21_AssignmentIsInvalid ==
    /\ (probe.op = "validateTSCode" /\ HasAssignment(probe.code))
          => /\ ~probe.out.isValid
             /\ Len(probe.out.violations) > 0
    /\ (probe.op = "dynamicLog" /\ HasAssignment(probe.fetchedConfig.CustomLoggingCode))
          => /\ probe.out.validated
             /\ ~probe.out.evaluated
             /\ \A i \in 1..Len(probe.out.lines) :
                    Contains(probe.out.lines[i], "<ValidationViolations: ")

\* x <<= 1 in a template-literal substitution: the line check finds nothing in it (the `=` follows `<`, and
\* a quote character precedes it), and the walk reports the assignment.
C21_Witness ==
    /\ probe.op = "validateTSCode"
    /\ probe.code = AssignCode("<<=", "template")
    /\ LexicalViolations(probe.code.lines, 1) = << >>
    /\ ~probe.out.isValid
    /\ probe.out.violations
          = << Violation("Direct assignment expressions are disallowed.", 1) >>

(***************************************************************************)
(* C26.  The names bound in the scope of a custom expression.              *)
(***************************************************************************)
ScopeOf(names) == SeqToSet(names)
EngineNames == {"als", "Math", "JSON", "Date"}

\* C26 (as stated): the scope binds exactly the names of the variable
\* context and Math, JSON and Date, each name of the context to its value
\* there; no other name is passed.
C26_ScopeIsContextAndUtilities ==
    probe.op = "evalContext"
        => /\ ScopeOf(probe.out.names)
                 = ScopeOf(probe.contextLocals.names) \cup {"Math", "JSON", "Date"}
           /\ \A name \in ScopeOf(probe.contextLocals.names) :
                  Get(probe.out, name) = Get(probe.contextLocals, name)

\* C26 (amended): the scope binds exactly the names of the variable context
\* and als, Math, JSON and Date, each once; a name of the context other than
\* these four is bound to its value there, and the four are bound to the
\* store handle and the utilities even where the context has an entry of the
\* same name.
C26_ScopeIsContextAndEngineNames ==
    probe.op = "evalContext"
        => /\ ScopeOf(probe.out.names)
                 = ScopeOf(probe.contextLocals.names) \cup EngineNames
           /\ \A i, j \in 1..Len(probe.out.names) :
                  probe.out.names[i] = probe.out.names[j] => i = j
           /\ Len(probe.out.vals) = Len(probe.out.names)
           /\ \A name \in ScopeOf(probe.contextLocals.names) \ EngineNames :
                  Get(probe.out, name) = Get(probe.contextLocals, name)
           /\ \A name \in EngineNames : Get(probe.out, name) = Builtin(name)

\* A context of x and Math: the scope has x, the utility Math in the place
\* of the context's Math, and als, JSON and Date after them.
C26_Witness ==
    /\ probe.op = "evalContext"
    /\ probe.contextLocals = Obj(<< "x", "Math" >>, << Num(7), Num(7) >>)
    /\ probe.out.names = << "x", "Math", "als", "JSON", "Date" >>
    /\ Get(probe.out, "x") = Num(7)
    /\ Get(probe.out, "Math") = Builtin("Math")

(***************************************************************************)
(* C27.  A dynamicLog call leaves the caller's locals mapping and the      *)
(* entries of the ambient store, and the values they hold, as they were,   *)
(* for every config, a config whose expression is valid and is evaluated   *)
(* included.                                                               *)
(***************************************************************************)
C27_SourcesUnchanged ==
    probe.op = "dynamicLog"
        => /\ probe.out.localsAfter = probe.allAvailableLocals
           /\ probe.out.storeAfter = probe.alsStoreObj

(***************************************************************************)
(* C25.  The transformer gives every call receiver.dynamicLog(key) and     *)
(* receiver.dynamicLog(key, metadata) exactly three arguments: the key,    *)
(* the metadata or the identifier undefined, and an object literal of      *)
(* shorthand names or the identifier undefined when there is no name.  The *)
(* names are, each once, the parameters of the enclosing functions and the *)
(* variables and classes declared by statements of an enclosing scope that *)
(* end before the call starts; no name declared after the call is among    *)
(* them.                                                                   *)
(***************************************************************************)
\* The identifiers a binding name declares, at any depth of its patterns.
RECURSIVE AllIdentifiers(_)
AllIdentifiers(name) ==
    IF name.kind = "Identifier" THEN {name.text}
    ELSE UNION {AllIdentifiers(name.elements[i]) : i \in 1..Len(name.elements)}
DeclaredBy(names) == UNION {AllIdentifiers(names[i]) : i \in 1..Len(names)}

\* The names the claim has injected into a call that starts at `start`.
ParameterNames(ancestors) ==
    UNION {UNION {AllIdentifiers(ancestors[i].parameters[j].name) :
                     j \in 1..Len(ancestors[i].parameters)} :
              i \in {k \in 1..Len(ancestors) : ancestors[k].kind = "FunctionLike"}}
StatementNames(ancestors, start) ==
    UNION {UNION {DeclaredBy(ancestors[i].children[j].names) :
                     j \in {m \in 1..Len(ancestors[i].children) :
                              /\ ancestors[i].children[m].kind
                                     \in {"VariableStatement", "ClassDeclaration"}
                              /\ ancestors[i].children[m].end < start}} :
              i \in {k \in 1..Len(ancestors) : ancestors[k].kind \in ScopeKinds}}
\* The names with a declaration that lies before the position `start`.
DeclaredBefore(ancestors, start) ==
    UNION {UNION {AllIdentifiers(ancestors[i].parameters[j].name) :
                     j \in {m \in 1..Len(ancestors[i].parameters) :
                              ancestors[i].parameters[m].start < start}}
           \cup UNION {DeclaredBy(ancestors[i].children[j].names) :
                          j \in {m \in 1..Len(ancestors[i].children) :
                                   ancestors[i].children[m].end < start}} :
              i \in 1..Len(ancestors)}

\* A call of the form the claim speaks of.
TargetForm(node) ==
    /\ node.kind = "CallExpression"
    /\ node.property = "dynamicLog"
    /\ Len(node.arguments) \in {1, 2}

\* The call, rewritten as the claim has it.
KeepsArguments(original, rewritten) ==
    /\ rewritten.kind = "CallExpression"
    /\ rewritten.property = original.property
    /\ Len(rewritten.arguments) = 3
    /\ rewritten.arguments[1] = original.arguments[1]
    /\ IF Len(original.arguments) = 2
       THEN \/ rewritten.arguments[2] = original.arguments[2]
            \/ /\ original.arguments[2].kind = "CallExpression"
               /\ rewritten.arguments[2].kind = "CallExpression"
               /\ rewritten.arguments[2].property = original.arguments[2].property
       ELSE rewritten.arguments[2] = TsIdentifier("undefined")
InjectsNames(original, rewritten, ancestors) ==
    LET claimed  == ParameterNames(ancestors) \cup StatementNames(ancestors, original.start)
        injected == rewritten.arguments[3]
    IN  /\ Len(rewritten.arguments) = 3
        /\ IF claimed = {}
           THEN injected = TsIdentifier("undefined")
           ELSE /\ injected.kind = "ObjectLiteralExpression"
                /\ SeqToSet(injected.names) = claimed
                /\ \A i, j \in 1..Len(injected.names) :
                       injected.names[i] = injected.names[j] => i = j
        /\ SeqToSet(injected.names) \subseteq DeclaredBefore(ancestors, original.start)
RewrittenAsClaimed(original, rewritten, ancestors) ==
    TargetForm(original)
        => /\ KeepsArguments(original, rewritten)
           /\ InjectsNames(original, rewritten, ancestors)

C25_EveryCallRewritten ==
    probe.op = "transformer"
        => /\ RewrittenAsClaimed(probe.node, probe.out, probe.ancestors)
           /\ \A i \in 1..Len(probe.node.arguments) :
                  RewrittenAsClaimed(probe.node.arguments[i], probe.out.arguments[i],
                                     probe.ancestors)

(***************************************************************************)
(* C23.  A dynamicLog call with a non-empty key calls the config fetcher   *)
(* exactly once, with its own key, and the sink at most once.  The sink is *)
(* called only after the call's own fetch has resolved, before its timer   *)
(* fired, with a well-formed config and the call has gone through the      *)
(* sampling gate; the line it is given is made from the call's own key,    *)
(* arguments and fetched config, never from the config of another call.    *)
(* (Which rates the gate lets through is the subject of C10.)              *)
(***************************************************************************)
\* The call was made with a non-empty key.
MadeWithKey(c) == pc[c] # "idle" /\ args[c].uniqueKey # ""

\* The call went through the gate of line 154 with the draw it made.
GatePassed(c) ==
    /\ Len(drawn[c]) = 1
    /\ LET rate == fetchPromise[c].config.SamplingRate
       IN  ~JSLessEq(rate, Num(0)) /\ ~JSGreaterEq(drawn[c][1], rate)

\* The line is the one made from the call's own arguments and fetched config.
OwnLine(c, entry) ==
    << entry.line >>
        = ProcessConfig(args[c].uniqueKey, args[c].metadata, args[c].allAvailableLocals,
                        alsStore, fetchPromise[c].config, drawn[c][1], entry.outcome).lines

C23_OneFetchOneSink ==
    \A c \in Calls :
        /\ MadeWithKey(c) => fetcherCalls[c] = << args[c].uniqueKey >>
        /\ SinkCount(c) <= 1
        /\ \A i \in SinkEntries(c) :
               /\ MadeWithKey(c)
               /\ fetchPromise[c].state = "fulfilled"
               /\ FetchFirst(c)
               /\ WellFormed(fetchPromise[c].config)
               /\ GatePassed(c)
               /\ OwnLine(c, sinkLog[i])

\* Two calls under the same key, each with one fetch and one line, the line
\* of each made from its own config.
C23_Witness ==
    /\ args[1].uniqueKey = "K" /\ args[2].uniqueKey = "K"
    /\ fetcherCalls[1] = << "K" >> /\ fetcherCalls[2] = << "K" >>
    /\ fetchPromise[1].state = "fulfilled" /\ fetchPromise[2].state = "fulfilled"
    /\ fetchPromise[1].config # fetchPromise[2].config
    /\ SinkCount(1) = 1 /\ SinkCount(2) = 1
    /\ \A i, j \in 1..Len(sinkLog) : i # j => sinkLog[i].line # sinkLog[j].line

(***************************************************************************)
(* C24.  Calls in flight together, under one key or several, are           *)
(* independent.  How a call ends, whether it calls the sink and with which *)
(* line follow from its own fetch result, draw, arguments and the ambient  *)
(* store; a step of one call (its timeout, its failed fetch, its skip, its *)
(* failing sink) changes nothing of another call; a call can be made, and  *)
(* a call whose race was rejected can go on, whatever the other calls are  *)
(* doing.  The calls reach the sink in either order.                       *)
(***************************************************************************)
\* All that the engine holds of one call.
PerCall(c) ==
    << pc[c], args[c], fetchPromise[c], timer[c], racePromise[c], result[c],
       fetcherCalls[c], settled[c], drawn[c], customRuns[c], timerMs[c],
       sourcesRead[c] >>
\* The lines the sink was given by one call.
SinkLines(c) == SelectSeq(sinkLog, LAMBDA entry : entry.call = c)

\* The end of the call is what its own inputs give.
OwnOutcome(c) ==
    IF racePromise[c].state = "fulfilled"
    THEN /\ fetchPromise[c] = racePromise[c]
         /\ \E draw \in Draws, sinkOutcome \in SinkOutcomes :
                LET own == ProcessConfig(args[c].uniqueKey, args[c].metadata,
                                         args[c].allAvailableLocals, alsStore,
                                         fetchPromise[c].config, draw, sinkOutcome)
                IN  /\ pc[c] = own.pc
                    /\ result[c] = own.result
                    /\ Len(SinkLines(c)) = Len(own.lines)
                    /\ \A i \in 1..Len(own.lines) :
                           /\ SinkLines(c)[i].line = own.lines[i]
                           /\ SinkLines(c)[i].outcome = sinkOutcome
    ELSE SinkLines(c) = << >>

C24_OwnOutcome == \A c \in Calls : Done(c) => OwnOutcome(c)

\* A call that has not been made can be made, and a call whose race was
\* rejected can go on, whatever the state of the other calls.
C24_NeverBlocked ==
    \A c \in Calls :
        /\ pc[c] = "idle" => ENABLED DynamicLogStart(c)
        /\ (pc[c] = "awaiting" /\ racePromise[c].state = "rejected")
               => ENABLED ResumeRejected(c)

\* A step that changes something of one call changes nothing of another.
C24_Frame ==
    \A c, d \in Calls :
        (c # d /\ PerCall(c)' # PerCall(c))
            => (PerCall(d)' = PerCall(d) /\ SinkLines(d)' = SinkLines(d))

C24_Independent == [](C24_OwnOutcome /\ C24_NeverBlocked) /\ [][C24_Frame]_vars

\* Two calls under the key K, in flight together: the sink threw on the line
\* of call 1, and then took the line of call 2.
C24_Witness ==
    /\ args[1].uniqueKey = "K" /\ args[2].uniqueKey = "K"
    /\ Len(sinkLog) = 2
    /\ sinkLog[1].call = 1 /\ sinkLog[1].outcome.threw
    /\ sinkLog[2].call = 2 /\ ~sinkLog[2].outcome.threw
    /\ pc[1] = "DeliveryFailed" /\ pc[2] = "Delivered"

(***************************************************************************)
(* A call whose caller goes on running while the call waits at line 124:   *)
(* the caller, or the task that owns the store, sets an entry of the       *)
(* mapping it passed as allAvailableLocals, or an entry of the store, to a *)
(* value (8) that no source holds at the time of the call.                 *)
(***************************************************************************)
LateValue == Num(8)
WaitingCalls == {c \in Calls : pc[c] = "awaiting"}

\* The caller writes to the object it passed as the third argument.
CallerMutates(c) ==
    /\ c \in WaitingCalls
    /\ args[c].allAvailableLocals.present
    /\ \E name \in {"x"} :
         /\ ~(HasOwn(args[c].allAvailableLocals, name)
              /\ Get(args[c].allAvailableLocals, name) = LateValue)
         /\ args' = [args EXCEPT ![c].allAvailableLocals = Put(@, name, LateValue)]
    /\ UNCHANGED << staticVars, timerMs, sourcesRead, probe, customRuns, internalVerbose,
                    alsStore, pc, fetchPromise, timer, racePromise, result,
                    fetcherCalls, sinkLog, unhandledRejections, settled, drawn >>

\* The task writes to the Map of its AsyncLocalStorage store.
StoreMutates ==
    /\ WaitingCalls # {}
    /\ alsStore.present
    /\ \E name \in {"x", "z"} :
         /\ ~(HasOwn(alsStore, name) /\ Get(alsStore, name) = LateValue)
         /\ alsStore' = Put(alsStore, name, LateValue)
    /\ UNCHANGED << staticVars, timerMs, sourcesRead, probe, customRuns, internalVerbose,
                    args, pc, fetchPromise, timer, racePromise, result,
                    fetcherCalls, sinkLog, unhandledRejections, settled, drawn >>

\* One call, with the full sample sets, and its environment.
LateReadNext ==
    \/ DynamicLogEmptyKey(1)
    \/ DynamicLogFetcherThrows(1)
    \/ DynamicLogStart(1)
    \/ FetchResolve(1)
    \/ FetchReject(1)
    \/ TimerFire(1)
    \/ ResumeRejected(1)
    \/ ResumeFulfilled(1)
    \/ CallerMutates(1)
    \/ StoreMutates

LateReadSpec == Init /\ [][LateReadNext]_vars

(***************************************************************************)
(* C29.  dynamicLog reads the locals mapping and the store only after the  *)
(* fetch has settled and the sampling gate has let the call through.  The  *)
(* line shows their entries as they are at that moment: an entry added or  *)
(* changed while the fetch was pending is in the line with its new value.  *)
(* A call that is aborted or skipped reads neither source.                 *)
(***************************************************************************)
\* The value the merged context has for a name when the call goes on.
VisibleValue(c, name) ==
    IF HasOwn(args[c].allAvailableLocals, name)
    THEN Get(args[c].allAvailableLocals, name)
    ELSE Get(alsStore, name)
Visible(c, name) ==
    HasOwn(args[c].allAvailableLocals, name) \/ HasOwn(alsStore, name)
Member(name, value) == "\"" \o name \o "\":\"" \o Rendering(value) \o "\""

C29_ReadsAfterGate ==
    \A c \in Calls :
        /\ sourcesRead[c]
              => /\ Done(c)
                 /\ fetchPromise[c].state = "fulfilled"
                 /\ FetchFirst(c)
                 /\ GatePassed(c)
        /\ pc[c] \in {"idle", "awaiting", "Aborted", "Skipped"} => ~sourcesRead[c]
        /\ \A i \in SinkEntries(c) :
               /\ sourcesRead[c]
               /\ \A name \in SeqToSet(fetchPromise[c].config.VariablesToLog.items) :
                      Visible(c, name)
                          => Contains(sinkLog[i].line, Member(name, VisibleValue(c, name)))

\* The caller set x of its mapping and the task added z to the store while
\* the fetch was pending: the line has both.
C29_Witness ==
    /\ pc[1] = "Delivered"
    /\ sourcesRead[1]
    /\ HasOwn(args[1].allAvailableLocals, "x")
    /\ Get(args[1].allAvailableLocals, "x") = LateValue
    /\ HasOwn(alsStore, "z")
    /\ \E i \in SinkEntries(1) :
           /\ Contains(sinkLog[i].line, "\"x\":\"8\"")
           /\ Contains(sinkLog[i].line, "\"z\":\"8\"")

====
